---- MODULE Spec2Model ----
(***************************************************************************)
(* Verification model of wren-core's mdl module:                           *)
(*   src/wren-core/core/src/mdl/mod.rs      (WrenMDL, transform, dialect)  *)
(*   src/wren-core/core/src/mdl/manifest.rs (Manifest and its serde glue)  *)
(*                                                                         *)
(* A Rust String is a sequence of one-character strings.  Option<T> is a   *)
(* record: None, or Some(v).  Each part of the module has its own          *)
(* specification; the variables of the other parts stay at their idle      *)
(* values.                                                                 *)
(***************************************************************************)
EXTENDS Integers, Sequences, FiniteSets, TLC

VARIABLES
    identifier,     \* dialect: the identifier handed to the unparser's dialect
    quote_style,    \* dialect: the Option<char> identifier_quote_style returned
    dpc,            \* dialect: "idle" | "call" | "done"
    doc,            \* serde: the JSON document (serde_json::Value tree), JAbsent when there is none
    manifest,       \* serde: Option<Manifest>, the value in memory
    original,       \* serde: Option<Manifest>, the value that was handed to the serializer
    spc,            \* serde: "idle" | "json" | "value" | "saved" | "reloaded" | "de_error" | "ser_error" | "reload_error"
    mdl_manifest,   \* index: Option<Manifest>, the argument of WrenMDL::new
    wren_mdl,       \* index: Option<WrenMDL>, the value WrenMDL::new returned
    mpc,            \* index: "idle" | "manifest" | "built"
    column,         \* inference: Option<Column>, the argument of infer_source_column
    field,          \* inference: Option<Field>, what infer_source_column returned
    ipc,            \* inference: "idle" | "call" | "done"
    analyzed_mdl,   \* transform: Option<AnalyzedWrenMDL>, shared by the calls
    ctx_functions,  \* transform: the function registry of each SessionContext
    call_via,       \* transform: per call, the entry point it was made through
    call_functions, \* transform: per call, its remote_functions
    call_sql,       \* transform: per call, its query
    tpc,            \* transform: per call, "idle" | "register" | "plan" | "done"
    reg_index,      \* transform: per call, the next entry of remote_functions
    mdl_ctx,        \* transform: per call, the context create_ctx_with_mdl built
    call_result,    \* transform: per call, Option<Result<String>>
    started_after,  \* transform: per call, the calls that had returned when it was made
    registrations,  \* index: the register_table calls made so far, <<name, table>> each
    lookup,         \* index: Option<[column, reference]>, a get_column_reference call and its answer
    join_doc,       \* join type: the JSON value of a relationship's joinType
    join_type,      \* join type: Option<JoinType>, the value in memory
    join_text,      \* join type: Option<String>, what Display wrote
    to_one,         \* join type: Option<bool>, what is_to_one returned
    join_parsed,    \* join type: Option<Result<JoinType>>, the displayed text read again
    jpc,            \* join type: "idle" | "json" | "value" | "de_error" | "asked" | "shown" | "parsed"
    src_manifest,   \* pipeline: Option<Manifest>, the manifest handed to AnalyzedWrenMDL::analyze
    analysis,       \* pipeline: Option<Result<AnalyzedWrenMDL>>
    statement,      \* pipeline: Option<Statement>, the sql of the transform call
    stage,          \* pipeline: "idle" | "manifest" | "failed" | "analyzed" | "plan" | "optimize" | "unparse" | "strip" | "done"
    outcome,        \* pipeline: Option<Result<String>>, what transform_sql_with_ctx returned
    ran             \* pipeline: the stages of the call that have run, in order, [stage, result] each

dialectVars == <<identifier, quote_style, dpc>>

serdeVars == <<doc, manifest, original, spc>>

indexVars == <<mdl_manifest, wren_mdl, mpc, registrations, lookup>>

inferVars == <<column, field, ipc>>

transformVars ==
    <<analyzed_mdl, ctx_functions, call_via, call_functions, call_sql, tpc,
      reg_index, mdl_ctx, call_result, started_after>>

joinVars == <<join_doc, join_type, join_text, to_one, join_parsed, jpc>>

pipelineVars == <<src_manifest, analysis, statement, stage, outcome, ran>>

vars == <<dialectVars, serdeVars, indexVars, inferVars, transformVars, joinVars, pipelineVars>>

----------------------------------------------------------------------------
(* Option<T> *)

None == [some |-> FALSE]

Some(v) == [some |-> TRUE, v |-> v]

\* All sequences over S of length at most n.
SeqUpTo(S, n) == UNION {[1..k -> S] : k \in 0..n}

----------------------------------------------------------------------------
(* Quoting dialect, mod.rs 379-405 *)

MaxIdentLen == 3

\* "ntilde"/"NTILDE" stand for a cased non-ASCII letter pair, "ming" for a
\* caseless non-ASCII letter (as in the column name of the unicode test).
IdentChars == {"o", "n", "O", "N", "1", "_", "-", "ntilde", "NTILDE", "ming"}

\* The letters a, c, d, m, t spell the names of models, columns and tables.
AsciiLower == {"o", "n", "a", "c", "d", "m", "t"}

AsciiUpper == {"O", "N", "A", "C", "D", "M", "T"}

AsciiDigit == {"1"}

\* char::to_uppercase / char::to_lowercase
UpperChar(c) ==
    CASE c = "o" -> "O"
      [] c = "n" -> "N"
      [] c = "a" -> "A"
      [] c = "c" -> "C"
      [] c = "d" -> "D"
      [] c = "m" -> "M"
      [] c = "t" -> "T"
      [] c = "ntilde" -> "NTILDE"
      [] OTHER -> c

LowerChar(c) ==
    CASE c = "O" -> "o"
      [] c = "N" -> "n"
      [] c = "A" -> "a"
      [] c = "C" -> "c"
      [] c = "D" -> "d"
      [] c = "M" -> "m"
      [] c = "T" -> "t"
      [] c = "NTILDE" -> "ntilde"
      [] OTHER -> c

to_uppercase(s) == [i \in 1..Len(s) |-> UpperChar(s[i])]

to_lowercase(s) == [i \in 1..Len(s) |-> LowerChar(s[i])]

\* The reserved keywords of sqlparser that can be spelled with IdentChars.
ALL_KEYWORDS == {<<"O", "N">>, <<"N", "O">>}

\* Regex ^[a-zA-Z_][a-zA-Z0-9_]*$
identifier_regex_is_match(s) ==
    /\ Len(s) >= 1
    /\ s[1] \in AsciiLower \cup AsciiUpper \cup {"_"}
    /\ \A i \in 2..Len(s) : s[i] \in AsciiLower \cup AsciiUpper \cup AsciiDigit \cup {"_"}

non_lowercase_never(sql) == FALSE

non_lowercase(sql) == to_lowercase(sql) # sql

identifier_quote_style(id) ==
    IF \/ to_uppercase(id) \in ALL_KEYWORDS
       \/ ~identifier_regex_is_match(id)
       \/ non_lowercase(id)
    THEN Some("\"")
    ELSE None

DialectInit ==
    /\ identifier \in SeqUpTo(IdentChars, MaxIdentLen)
    /\ quote_style = None
    /\ dpc = "call"

QuoteIdentifier ==
    /\ dpc = "call"
    /\ quote_style' = identifier_quote_style(identifier)
    /\ dpc' = "done"
    /\ UNCHANGED <<identifier, serdeVars, indexVars, inferVars, transformVars, joinVars, pipelineVars>>

DialectIdle ==
    /\ identifier = <<>>
    /\ quote_style = None
    /\ dpc = "idle"

----------------------------------------------------------------------------
(* Result<T, E> *)

Ok(v) == [ok |-> TRUE, v |-> v]

Err(e) == [ok |-> FALSE, e |-> e]

\* Collects a sequence of results the way serde does for a Vec: the first
\* error ends the run, otherwise the sequence of values.
collect(rs) ==
    IF \A i \in DOMAIN rs : rs[i].ok
    THEN Ok([i \in DOMAIN rs |-> rs[i].v])
    ELSE rs[CHOOSE i \in DOMAIN rs : ~rs[i].ok /\ \A j \in 1..(i - 1) : rs[j].ok]

----------------------------------------------------------------------------
(* serde_json::Value.  An object is a record over the keys the structs     *)
(* know; a key that the document does not have holds JAbsent.  Each kind   *)
(* of value keeps its payload in a field of its own.                       *)

JAbsent == [t |-> "absent"]

JNull == [t |-> "null"]

JBool(b) == [t |-> "bool", b |-> b]

JNum(n) == [t |-> "num", n |-> n]

JStr(s) == [t |-> "str", s |-> s]

JObj(r) == [t |-> "obj", o |-> r]

JArr(a) == [t |-> "arr", a |-> a]

\* derive(Serialize) / derive(Deserialize) of an Option<String> field
Option_String_serialize(o) == IF o.some THEN JStr(o.v) ELSE JNull

Option_String_deserialize(j) ==
    CASE j.t \in {"absent", "null"} -> Ok(None)
      [] j.t = "str" -> Ok(Some(j.s))
      [] OTHER -> Err("invalid type, expected a string")

\* derive(Deserialize) of a required String field
String_deserialize(j) ==
    CASE j.t = "str" -> Ok(j.s)
      [] j.t = "absent" -> Err("missing field")
      [] OTHER -> Err("invalid type, expected a string")

----------------------------------------------------------------------------
(* mod table_reference, manifest.rs 52-131 *)

\* str::split('.'): every segment, the empty ones included.  The k-th
\* segment lies between the (k-1)-th and the k-th dot.
split_dot(s) ==
    LET dots == {i \in 1..Len(s) : s[i] = "."}
        n == Cardinality(dots)
        dot(k) == IF k = 0 THEN 0
                  ELSE IF k = n + 1 THEN Len(s) + 1
                  ELSE CHOOSE i \in dots : Cardinality({j \in dots : j < i}) = k - 1
    IN  [k \in 1..(n + 1) |-> SubSeq(s, dot(k - 1) + 1, dot(k) - 1)]

\* struct TableReference { catalog, schema, table } and its derived serde
TableReference(c, s, t) == [catalog |-> c, schema |-> s, table |-> t]

TableReference_default == TableReference(None, None, None)

TableReference_serialize(tr) ==
    JObj([catalog |-> Option_String_serialize(tr.catalog),
          schema |-> Option_String_serialize(tr.schema),
          table |-> Option_String_serialize(tr.table)])

TableReference_fields(c, s, t) ==
    IF ~c.ok THEN c
    ELSE IF ~s.ok THEN s
    ELSE IF ~t.ok THEN t
    ELSE Ok(TableReference(c.v, s.v, t.v))

TableReference_deserialize(j) ==
    IF j.t # "obj" THEN Err("invalid type, expected struct TableReference")
    ELSE TableReference_fields(Option_String_deserialize(j.o.catalog),
                               Option_String_deserialize(j.o.schema),
                               Option_String_deserialize(j.o.table))

\* Option::filter(|s| !s.is_empty())
filter_not_empty(o) == IF o.some /\ o.v # <<>> THEN o ELSE None

\* lines 71-87: push catalog and '.', schema and '.', table
table_reference_join(catalog, schema, table) ==
    LET result == (IF catalog.some THEN catalog.v \o <<".">> ELSE <<>>)
                  \o (IF schema.some THEN schema.v \o <<".">> ELSE <<>>)
                  \o (IF table.some THEN table.v ELSE <<>>)
    IN  IF result = <<>> THEN Ok(None) ELSE Ok(Some(result))

table_reference_of(r) ==
    IF ~r.ok THEN r
    ELSE table_reference_join(filter_not_empty(r.v.catalog),
                              filter_not_empty(r.v.schema),
                              filter_not_empty(r.v.table))

table_reference_deserialize(j) == table_reference_of(TableReference_deserialize(j))

table_reference_parts_two_as_catalog(parts) ==
    IF Len(parts) = 3 THEN TableReference(Some(parts[1]), Some(parts[2]), Some(parts[3]))
    ELSE IF Len(parts) = 2 THEN TableReference(Some(parts[1]), Some(parts[2]), None)
    ELSE IF Len(parts) = 1 THEN TableReference(None, None, Some(parts[1]))
    ELSE TableReference_default

table_reference_parts(parts) ==
    IF Len(parts) = 3 THEN TableReference(Some(parts[1]), Some(parts[2]), Some(parts[3]))
    ELSE IF Len(parts) = 2 THEN TableReference(None, Some(parts[1]), Some(parts[2]))
    ELSE IF Len(parts) = 1 THEN TableReference(None, None, Some(parts[1]))
    ELSE TableReference_default

table_reference_of_parts_no_limit(parts) ==
    Ok(TableReference_serialize(table_reference_parts(parts)))

\* lines 100-126: more than 3 parts is an error
table_reference_of_parts(parts) ==
    IF Len(parts) > 3 THEN Err("Invalid table reference")
    ELSE Ok(TableReference_serialize(table_reference_parts(parts)))

table_reference_serialize(table_ref) ==
    IF table_ref.some
    THEN table_reference_of_parts(SelectSeq(split_dot(table_ref.v), LAMBDA p : p # <<>>))
    ELSE Ok(TableReference_serialize(TableReference_default))

----------------------------------------------------------------------------
(* mod bool_from_int, manifest.rs 133-156 *)

\* serde_json::Number::is_u64 on an integer
is_u64(n) == n >= 0

bool_from_int_deserialize_only_one(value) ==
    CASE value.t = "bool" -> Ok(value.b)
      [] value.t = "num" /\ is_u64(value.n) -> Ok(value.n = 1)
      [] OTHER -> Err("invalid type for boolean")

bool_from_int_deserialize(value) ==
    CASE value.t = "bool" -> Ok(value.b)
      [] value.t = "num" /\ is_u64(value.n) -> Ok(value.n # 0)
      [] OTHER -> Err("invalid type for boolean")

bool_from_int_serialize(value) == JBool(value)

\* #[serde(default, with = "bool_from_int")]
bool_field_deserialize(j) ==
    IF j.t = "absent" THEN Ok(FALSE) ELSE bool_from_int_deserialize(j)

\* #[serde(default, with = "table_reference")]
table_reference_field_deserialize(j) ==
    IF j.t = "absent" THEN Ok(None) ELSE table_reference_deserialize(j)

----------------------------------------------------------------------------
(* serde_with::NoneAsEmptyString on Option<String> *)

NoneAsEmptyString_serialize(o) == IF o.some THEN JStr(o.v) ELSE JStr("")

NoneAsEmptyString_deserialize(j) ==
    CASE j.t = "absent" -> Ok(None)
      [] j.t = "str" -> IF j.s = "" THEN Ok(None) ELSE Ok(Some(j.s))
      [] OTHER -> Err("invalid type, expected a string")

----------------------------------------------------------------------------
(* Column, Model and Manifest with their derived serde, manifest.rs 10-175. *)
(* The fields kept are the ones that go through hand-written or            *)
(* serde_with glue, plus the names.                                        *)

Column(name, type, is_calculated, not_null, expression) ==
    [name |-> name, type |-> type, relationship |-> None,
     is_calculated |-> is_calculated, not_null |-> not_null,
     expression |-> expression]

Column_serialize(c) ==
    Ok(JObj([name |-> JStr(c.name),
             type |-> JStr(c.type),
             relationship |-> Option_String_serialize(c.relationship),
             isCalculated |-> bool_from_int_serialize(c.is_calculated),
             notNull |-> bool_from_int_serialize(c.not_null),
             expression |-> NoneAsEmptyString_serialize(c.expression)]))

Column_fields(name, type, relationship, is_calculated, not_null, expression) ==
    IF ~name.ok THEN name
    ELSE IF ~type.ok THEN type
    ELSE IF ~relationship.ok THEN relationship
    ELSE IF ~is_calculated.ok THEN is_calculated
    ELSE IF ~not_null.ok THEN not_null
    ELSE IF ~expression.ok THEN expression
    ELSE Ok([name |-> name.v, type |-> type.v,
             relationship |-> relationship.v,
             is_calculated |-> is_calculated.v,
             not_null |-> not_null.v,
             expression |-> expression.v])

Column_deserialize(j) ==
    IF j.t # "obj" THEN Err("invalid type, expected struct Column")
    ELSE Column_fields(String_deserialize(j.o.name),
                       String_deserialize(j.o.type),
                       Option_String_deserialize(j.o.relationship),
                       bool_field_deserialize(j.o.isCalculated),
                       bool_field_deserialize(j.o.notNull),
                       NoneAsEmptyString_deserialize(j.o.expression))

Model(name, table_reference, columns, cached) ==
    [name |-> name, table_reference |-> table_reference,
     columns |-> columns, cached |-> cached]

Model_object(name, table_reference, columns, cached) ==
    IF ~table_reference.ok THEN table_reference
    ELSE IF ~columns.ok THEN columns
    ELSE Ok(JObj([name |-> name,
                  tableReference |-> table_reference.v,
                  columns |-> JArr(columns.v),
                  cached |-> cached]))

Model_serialize(m) ==
    Model_object(JStr(m.name),
                 table_reference_serialize(m.table_reference),
                 collect([i \in DOMAIN m.columns |-> Column_serialize(m.columns[i])]),
                 bool_from_int_serialize(m.cached))

Model_fields(name, table_reference, columns, cached) ==
    IF ~name.ok THEN name
    ELSE IF ~table_reference.ok THEN table_reference
    ELSE IF ~columns.ok THEN columns
    ELSE IF ~cached.ok THEN cached
    ELSE Ok(Model(name.v, table_reference.v, columns.v, cached.v))

\* a required Vec<Arc<Column>>
Columns_deserialize(j) ==
    IF j.t = "arr"
    THEN collect([i \in DOMAIN j.a |-> Column_deserialize(j.a[i])])
    ELSE Err("missing field columns")

Model_deserialize(j) ==
    IF j.t # "obj" THEN Err("invalid type, expected struct Model")
    ELSE Model_fields(String_deserialize(j.o.name),
                      table_reference_field_deserialize(j.o.tableReference),
                      Columns_deserialize(j.o.columns),
                      bool_field_deserialize(j.o.cached))

Manifest(catalog, schema, models) ==
    [catalog |-> catalog, schema |-> schema, models |-> models]

Manifest_object(catalog, schema, models) ==
    IF ~models.ok THEN models
    ELSE Ok(JObj([catalog |-> catalog, schema |-> schema, models |-> JArr(models.v)]))

\* serde_json::to_value / to_string of a Manifest
Manifest_serialize(m) ==
    Manifest_object(JStr(m.catalog), JStr(m.schema),
                    collect([i \in DOMAIN m.models |-> Model_serialize(m.models[i])]))

Manifest_fields(catalog, schema, models) ==
    IF ~catalog.ok THEN catalog
    ELSE IF ~schema.ok THEN schema
    ELSE IF ~models.ok THEN models
    ELSE Ok(Manifest(catalog.v, schema.v, models.v))

\* #[serde(default)] Vec<Arc<Model>>
Models_deserialize(j) ==
    IF j.t = "arr"
    THEN collect([i \in DOMAIN j.a |-> Model_deserialize(j.a[i])])
    ELSE IF j.t = "absent" THEN Ok(<<>>)
    ELSE Err("invalid type, expected a sequence")

\* serde_json::from_str::<Manifest>
Manifest_deserialize(j) ==
    IF j.t # "obj" THEN Err("invalid type, expected struct Manifest")
    ELSE Manifest_fields(String_deserialize(j.o.catalog),
                         String_deserialize(j.o.schema),
                         Models_deserialize(j.o.models))

----------------------------------------------------------------------------
(* Inputs of the serde specification *)

MaxRefLen == 5

MaxSegLen == 1

MaxJsonInt == 2

RefChars == {"a", "b", "."}

ExprTexts == {"", "a"}

MaxSegments == 4

\* Manifests as ManifestBuilder makes them: one model with one column.  The
\* second part has the references of 1 to MaxSegments one-letter segments:
\* a, a.b, a.b.a, ...
BuiltManifests ==
    {Manifest("wren", "test",
              <<Model("m", tr, <<Column("c", "int", ic, nn, ex)>>, ca)>>) :
        tr \in {None} \cup {Some(s) : s \in SeqUpTo(RefChars, MaxRefLen)},
        ic \in BOOLEAN, nn \in BOOLEAN, ca \in BOOLEAN,
        ex \in {None} \cup {Some(e) : e \in ExprTexts}}
    \cup
    {Manifest("wren", "test",
              <<Model("m", Some(s), <<Column("c", "int", FALSE, FALSE, None)>>, FALSE)>>) :
        s \in UNION {{[i \in 1..(2 * k - 1) |->
                          IF i % 2 = 1 THEN segs[(i + 1) \div 2] ELSE "."] :
                         segs \in [1..k -> RefChars \ {"."}]} : k \in 1..MaxSegments}}

\* What a document may hold where a boolean is expected.
FlagValues ==
    {JAbsent, JStr("yes")} \cup {JBool(b) : b \in BOOLEAN}
        \cup {JNum(n) : n \in (0 - MaxJsonInt)..MaxJsonInt}

TableReferenceFieldValues ==
    {JNull} \cup {JStr(s) : s \in SeqUpTo(RefChars, MaxSegLen)}

InputDoc(tr, ca, ic, nn, ex) ==
    JObj([catalog |-> JStr("wren"), schema |-> JStr("test"),
          models |-> JArr(<<
              JObj([name |-> JStr("m"), tableReference |-> tr, cached |-> ca,
                    columns |-> JArr(<<
                        JObj([name |-> JStr("c"), type |-> JStr("int"),
                              relationship |-> JAbsent,
                              isCalculated |-> ic, notNull |-> nn,
                              expression |-> ex])>>)])>>)])

\* Documents of a producer: any table reference object with any expression
\* text, and any encoding of one of the three boolean fields (cached,
\* isCalculated, notNull) with any expression text.
InputDocs ==
    {InputDoc(tr, JBool(FALSE), JAbsent, JBool(TRUE), ex) :
        tr \in {JAbsent} \cup
               {JObj([catalog |-> c, schema |-> s, table |-> t]) :
                   c \in TableReferenceFieldValues,
                   s \in TableReferenceFieldValues,
                   t \in TableReferenceFieldValues},
        ex \in {JAbsent} \cup {JStr(e) : e \in ExprTexts}}
    \cup
    {InputDoc(tr, f[1], f[2], f[3], ex) :
        tr \in {JAbsent, JObj([catalog |-> JNull, schema |-> JStr(<<"a">>),
                               table |-> JStr(<<"b">>)])},
        f \in {<<v, JAbsent, JBool(TRUE)>> : v \in FlagValues}
                \cup {<<JBool(FALSE), v, JAbsent>> : v \in FlagValues}
                \cup {<<JAbsent, JBool(TRUE), v>> : v \in FlagValues},
        ex \in {JAbsent} \cup {JStr(e) : e \in ExprTexts}}

SerdeIdle ==
    /\ doc = JAbsent
    /\ manifest = None
    /\ original = None
    /\ spc = "idle"

SerdeInit ==
    /\ original = None
    /\ \/ /\ doc = JAbsent
          /\ manifest \in {Some(m) : m \in BuiltManifests}
          /\ spc = "value"
       \/ /\ doc \in InputDocs
          /\ manifest = None
          /\ spc = "json"

\* serde_json::from_str of a producer's document
Loaded(r) ==
    /\ manifest' = IF r.ok THEN Some(r.v) ELSE None
    /\ spc' = IF r.ok THEN "value" ELSE "de_error"

Load ==
    /\ spc = "json"
    /\ Loaded(Manifest_deserialize(doc))
    /\ UNCHANGED <<doc, original, dialectVars, indexVars, inferVars, transformVars, joinVars, pipelineVars>>

\* serde_json::to_string of the value in memory
Saved(r) ==
    /\ doc' = IF r.ok THEN r.v ELSE JAbsent
    /\ spc' = IF r.ok THEN "saved" ELSE "ser_error"

Save ==
    /\ spc = "value"
    /\ Saved(Manifest_serialize(manifest.v))
    /\ original' = manifest
    /\ manifest' = None
    /\ UNCHANGED <<dialectVars, indexVars, inferVars, transformVars, joinVars, pipelineVars>>

\* serde_json::from_str of the document Save wrote
Reloaded(r) ==
    /\ manifest' = IF r.ok THEN Some(r.v) ELSE None
    /\ spc' = IF r.ok THEN "reloaded" ELSE "reload_error"

Reload ==
    /\ spc = "saved"
    /\ Reloaded(Manifest_deserialize(doc))
    /\ UNCHANGED <<doc, original, dialectVars, indexVars, inferVars, transformVars, joinVars, pipelineVars>>

----------------------------------------------------------------------------
(* Model Index: WrenMDL::new, mod.rs 97-166 *)

\* A std HashMap is a function from its keys; insert adds or overwrites.
HashMap_new == <<>>

HashMap_insert(map, k, v) ==
    [x \in DOMAIN map \cup {k} |-> IF x = k THEN v ELSE map[x]]

\* One sequence out of a sequence of sequences (nested iter().for_each).
flatten(seqs) ==
    LET upto[i \in 0..Len(seqs)] == IF i = 0 THEN <<>> ELSE upto[i - 1] \o seqs[i]
    IN  upto[Len(seqs)]

Metric(name, dimension, measure) ==
    [name |-> name, dimension |-> dimension, measure |-> measure]

\* Manifest with the two collections WrenMDL::new walks.
IndexManifest(catalog, schema, models, metrics) ==
    [catalog |-> catalog, schema |-> schema, models |-> models, metrics |-> metrics]

\* enum Dataset { Model(Arc<Model>), Metric(Arc<Metric>) }
Dataset_Model(m) == [kind |-> "Model", name |-> m.name, model |-> m]

Dataset_Metric(m) == [kind |-> "Metric", name |-> m.name, metric |-> m]

ColumnReference_new(dataset, col) == [dataset |-> dataset, column |-> col]

\* logical_plan::utils::from_qualified_name_str: the fully qualified 4-part
\* name (catalog, schema, dataset, column), matched exactly.
from_qualified_name_str(catalog, schema, dataset, col) ==
    [catalog |-> catalog, schema |-> schema, table |-> dataset, name |-> col]

\* One (key, value) pair handed to qualified_references.insert
entry(m, dataset, col) ==
    [key |-> from_qualified_name_str(m.catalog, m.schema, dataset.name, col.name),
     ref |-> ColumnReference_new(dataset, col)]

\* lines 113-128: every column of every model, in order
model_entries(m) ==
    flatten([i \in DOMAIN m.models |->
                [j \in DOMAIN m.models[i].columns |->
                    entry(m, Dataset_Model(m.models[i]), m.models[i].columns[j])]])

\* The mutant keys a measure by the manifest's schema instead of its metric.
metric_entries_measure_without_metric(m) ==
    flatten([i \in DOMAIN m.metrics |->
                [j \in DOMAIN m.metrics[i].dimension |->
                    entry(m, Dataset_Metric(m.metrics[i]), m.metrics[i].dimension[j])]
                \o
                [j \in DOMAIN m.metrics[i].measure |->
                    [key |-> from_qualified_name_str(m.catalog, m.schema, m.schema,
                                                     m.metrics[i].measure[j].name),
                     ref |-> ColumnReference_new(Dataset_Metric(m.metrics[i]),
                                                 m.metrics[i].measure[j])]]])

\* lines 129-158: per metric its dimensions, then its measures
metric_entries(m) ==
    flatten([i \in DOMAIN m.metrics |->
                [j \in DOMAIN m.metrics[i].dimension |->
                    entry(m, Dataset_Metric(m.metrics[i]), m.metrics[i].dimension[j])]
                \o
                [j \in DOMAIN m.metrics[i].measure |->
                    entry(m, Dataset_Metric(m.metrics[i]), m.metrics[i].measure[j])]])

\* The inserts of WrenMDL::new, one after the other.
insert_all(es) ==
    LET upto[i \in 0..Len(es)] ==
            IF i = 0 THEN HashMap_new
            ELSE HashMap_insert(upto[i - 1], es[i].key, es[i].ref)
    IN  upto[Len(es)]

\* format!("{}.{}.", catalog, schema), kept as its pieces
catalog_schema_prefix(m) == <<m.catalog, ".", m.schema, ".">>

WrenMDL_new(m) ==
    [manifest |-> m,
     qualified_references |-> insert_all(model_entries(m) \o metric_entries(m)),
     register_tables |-> HashMap_new,
     catalog_schema_prefix |-> catalog_schema_prefix(m)]

MaxModels == 1

MaxColumns == 2

DatasetNames == {"m", "n"}

ColumnNames == {"c", "d"}

PlainColumns(n) ==
    SeqUpTo({Column(name, "int", FALSE, FALSE, None) : name \in ColumnNames}, n)

IndexModels ==
    {Model(name, None, cols, FALSE) :
        name \in DatasetNames, cols \in PlainColumns(MaxColumns)}

\* Manifests with up to MaxModels models and at most one metric, which has
\* at most one dimension and one measure.
IndexManifests ==
    {IndexManifest("wren", "test", models, metrics) :
        models \in SeqUpTo(IndexModels, MaxModels),
        metrics \in {<<>>} \cup {<<Metric(name, dims, meas)>> :
                                    name \in DatasetNames,
                                    dims \in PlainColumns(1),
                                    meas \in PlainColumns(1)}}

IndexIdle ==
    /\ mdl_manifest = None
    /\ wren_mdl = None
    /\ mpc = "idle"
    /\ registrations = <<>>
    /\ lookup = None

IndexInit ==
    /\ mdl_manifest \in {Some(m) : m \in IndexManifests}
    /\ wren_mdl = None
    /\ mpc = "manifest"
    /\ registrations = <<>>
    /\ lookup = None

\* WrenMDL::new(manifest)
NewMDL ==
    /\ mpc = "manifest"
    /\ wren_mdl' = Some(WrenMDL_new(mdl_manifest.v))
    /\ mpc' = "built"
    /\ UNCHANGED <<mdl_manifest, registrations, lookup>>
    /\ UNCHANGED <<dialectVars, serdeVars, inferVars, transformVars, joinVars, pipelineVars>>

get_column_reference_by_column_name(mdl, col) ==
    IF \E k \in DOMAIN mdl.qualified_references : k.name = col.name
    THEN Some(mdl.qualified_references[
             CHOOSE k \in DOMAIN mdl.qualified_references : k.name = col.name])
    ELSE None

\* WrenMDL::get_column_reference, lines 294-299: HashMap::get and clone
get_column_reference(mdl, col) ==
    IF col \in DOMAIN mdl.qualified_references
    THEN Some(mdl.qualified_references[col])
    ELSE None

\* mdl.get_column_reference(&column) on the built index.  The column asked
\* for is a 4-part name in the spellings of the manifest's names or in
\* other spellings.
GetColumnReference ==
    /\ mpc = "built"
    /\ registrations = <<>>
    /\ \E col \in {from_qualified_name_str(catalog, schema, dataset, name) :
                      catalog \in {"wren", "Wren"},
                      schema \in {"test", "tes"},
                      dataset \in DatasetNames \cup {"M"},
                      name \in ColumnNames \cup {"C"}} :
           lookup' = Some([column |-> col,
                           reference |-> get_column_reference(wren_mdl.v, col)])
    /\ mpc' = "looked_up"
    /\ UNCHANGED <<mdl_manifest, wren_mdl, registrations>>
    /\ UNCHANGED <<dialectVars, serdeVars, inferVars, transformVars, joinVars, pipelineVars>>

----------------------------------------------------------------------------
(* Source column inference: mod.rs 197-244 *)

\* sqlparser's Expr, as far as collect_one_column tells its variants apart.
Ident(value) == [value |-> value]

Expr_Identifier(ident) == [kind |-> "Identifier", idents |-> <<ident>>]

Expr_CompoundIdentifier(idents) == [kind |-> "CompoundIdentifier", idents |-> idents]

Expr_Other(kind) == [kind |-> kind, idents |-> <<>>]

\* The expression texts of the model and what the generic dialect parses
\* them to (DFParser::parse_sql_into_expr_with_dialect).
ExprSqls ==
    {"", "a", "\"a\"", "a.b", "\"a\".\"b\".\"c\"", "lower(a)", "a + 1", "1", "'a'", "a +", "a || a"}

sql_to_expr(sql) ==
    CASE sql = "a" -> Ok(Expr_Identifier(Ident("a")))
      [] sql = "\"a\"" -> Ok(Expr_Identifier(Ident("a")))
      [] sql = "a.b" -> Ok(Expr_CompoundIdentifier(<<Ident("a"), Ident("b")>>))
      [] sql = "\"a\".\"b\".\"c\"" ->
             Ok(Expr_CompoundIdentifier(<<Ident("a"), Ident("b"), Ident("c")>>))
      [] sql = "lower(a)" -> Ok(Expr_Other("Function"))
      [] sql = "a + 1" -> Ok(Expr_Other("BinaryOp"))
      [] sql = "a || a" -> Ok(Expr_Other("BinaryOp"))
      [] sql = "1" -> Ok(Expr_Other("Value"))
      [] sql = "'a'" -> Ok(Expr_Other("Value"))
      [] OTHER -> Err("sql parser error")

\* The mutant takes the head of the chain.
collect_one_column_first(expr) ==
    CASE expr.kind = "CompoundIdentifier" ->
             IF expr.idents = <<>> THEN None ELSE Some(expr.idents[1])
      [] expr.kind = "Identifier" -> Some(expr.idents[1])
      [] OTHER -> None

\* The variant descends into the left operand of a binary operation.
collect_one_column_left_operand(expr) ==
    CASE expr.kind = "CompoundIdentifier" ->
             IF expr.idents = <<>> THEN None ELSE Some(expr.idents[Len(expr.idents)])
      [] expr.kind = "Identifier" -> Some(expr.idents[1])
      [] expr.kind = "BinaryOp" -> Some(Ident("a"))
      [] OTHER -> None

collect_one_column(expr) ==
    CASE expr.kind = "CompoundIdentifier" ->
             IF expr.idents = <<>> THEN None ELSE Some(expr.idents[Len(expr.idents)])
      [] expr.kind = "Identifier" -> Some(expr.idents[1])
      [] OTHER -> None

\* logical_plan::utils::map_data_type, on the type names of the model
map_data_type(type) ==
    CASE type = "int" -> "Int32"
      [] type = "string" -> "Utf8"
      [] OTHER -> "Utf8"

\* arrow's Field::new(name, data_type, nullable)
Field_new(name, data_type, nullable) ==
    [name |-> name, data_type |-> data_type, nullable |-> nullable]

\* Column::to_field: a field of the declared type and nullability, named
\* as the column.
Column_to_field(c) == Field_new(c.name, map_data_type(c.type), ~c.not_null)

\* lines 213-219: Option::map over the collected identifier
field_of_ident(c, name) ==
    IF name.some
    THEN Some(Field_new(name.v.value, map_data_type(c.type), c.not_null))
    ELSE None

\* lines 211-219: .ok()? on the parse result, then collect_one_column
field_of_expr(c, expr) ==
    IF expr.ok THEN field_of_ident(c, collect_one_column(expr.v)) ELSE None

infer_source_column(c) ==
    IF c.is_calculated \/ c.relationship.some THEN None
    ELSE IF c.expression.some THEN field_of_expr(c, sql_to_expr(c.expression.v))
    ELSE Some(Column_to_field(c))

InferIdle ==
    /\ column = None
    /\ field = None
    /\ ipc = "idle"

InferInit ==
    /\ column \in {Some([name |-> "col", type |-> ty, relationship |-> rel,
                         is_calculated |-> ic, not_null |-> nn, expression |-> ex]) :
                      ty \in {"int", "string"},
                      rel \in {None, Some("r")},
                      ic \in BOOLEAN,
                      nn \in BOOLEAN,
                      ex \in {None} \cup {Some(e) : e \in ExprSqls}}
    /\ field = None
    /\ ipc = "call"

\* Self::infer_source_column(column), as the filter_map of line 184 calls it
InferSourceColumn ==
    /\ ipc = "call"
    /\ field' = infer_source_column(column.v)
    /\ ipc' = "done"
    /\ UNCHANGED <<column, dialectVars, serdeVars, indexVars, transformVars, joinVars, pipelineVars>>

----------------------------------------------------------------------------
(* The registry of physical sources: mod.rs 246-256 *)

\* WrenDataSource::new_with_schema: a data source handle is known by its
\* schema, the list of its fields.
WrenDataSource_new_with_schema(schema) == [schema |-> schema]

\* WrenMDL::register_table, lines 246-248
register_table(mdl, name, table) ==
    [mdl EXCEPT !.register_tables = HashMap_insert(@, name, table)]

\* WrenMDL::get_table, lines 250-252
get_table(mdl, name) ==
    IF name \in DOMAIN mdl.register_tables
    THEN Some(mdl.register_tables[name])
    ELSE None

MaxRegistrations == 3

\* The registrations are made on the index of a manifest with at most one
\* model.
RegistryInit ==
    /\ mdl_manifest \in {Some(IndexManifest("wren", "test", models, <<>>)) :
                            models \in SeqUpTo(IndexModels, 1)}
    /\ wren_mdl = None
    /\ mpc = "manifest"
    /\ registrations = <<>>
    /\ lookup = None

\* wren_mdl.register_table(name, table), as analyze_with_tables (lines
\* 76-78) and infer_and_register_remote_table (lines 191-193) call it
RegisterTable ==
    /\ mpc = "built"
    /\ Len(registrations) < MaxRegistrations
    /\ \E name \in {"t", "u"},
          table \in {WrenDataSource_new_with_schema(<<>>),
                     WrenDataSource_new_with_schema(<<Field_new("a", "Int32", FALSE)>>)} :
           /\ wren_mdl' = Some(register_table(wren_mdl.v, name, table))
           /\ registrations' = Append(registrations, <<name, table>>)
    /\ UNCHANGED <<mdl_manifest, mpc, lookup>>
    /\ UNCHANGED <<dialectVars, serdeVars, inferVars, transformVars, joinVars, pipelineVars>>

----------------------------------------------------------------------------
(* Query transformer: transform_sql, transform_sql_with_ctx and            *)
(* register_remote_function, mod.rs 306-377.                               *)
(* Two calls run concurrently on one Arc<AnalyzedWrenMDL>.  A call made    *)
(* through transform_sql brings a SessionContext of its own; a call made   *)
(* through transform_sql_with_ctx runs on the caller's context, which the  *)
(* two calls then share.                                                   *)

Calls == {1, 2}

\* SessionContext ids: the caller's context, and the one of each call.
CallerCtx == 0

MaxFunctions == 1

RemoteFunction(name, function_type, return_type) ==
    [name |-> name, function_type |-> function_type, return_type |-> return_type]

\* The queries: no function call, f(x), h(x) OVER (...)
Query(function, over) == [function |-> function, over |-> over]

\* The function registry of a SessionState: one map per kind of function,
\* from the function's name to the registered by-pass function.
SessionContext_new ==
    [Scalar |-> HashMap_new, Aggregate |-> HashMap_new, Window |-> HashMap_new]

\* ByPassScalarUDF::new / ByPassAggregateUDF::new / ByPassWindowFunction::new
ByPassFunction(name, return_type) == [name |-> name, return_type |-> return_type]

\* The mutant registers an aggregate function with register_udf.
register_remote_function_udaf_as_udf(registry, rf) ==
    CASE rf.function_type = "Scalar" ->
             [registry EXCEPT !.Scalar = HashMap_insert(@, rf.name,
                 ByPassFunction(rf.name, map_data_type(rf.return_type)))]
      [] rf.function_type = "Aggregate" ->
             [registry EXCEPT !.Scalar = HashMap_insert(@, rf.name,
                 ByPassFunction(rf.name, map_data_type(rf.return_type)))]
      [] rf.function_type = "Window" ->
             [registry EXCEPT !.Window = HashMap_insert(@, rf.name,
                 ByPassFunction(rf.name, map_data_type(rf.return_type)))]

\* The mutant leaves a window function out.
register_remote_function_no_udwf(registry, rf) ==
    CASE rf.function_type = "Scalar" ->
             [registry EXCEPT !.Scalar = HashMap_insert(@, rf.name,
                 ByPassFunction(rf.name, map_data_type(rf.return_type)))]
      [] rf.function_type = "Aggregate" ->
             [registry EXCEPT !.Aggregate = HashMap_insert(@, rf.name,
                 ByPassFunction(rf.name, map_data_type(rf.return_type)))]
      [] rf.function_type = "Window" -> registry

\* register_udf / register_udaf / register_udwf on the context's state
register_remote_function(registry, rf) ==
    CASE rf.function_type = "Scalar" ->
             [registry EXCEPT !.Scalar = HashMap_insert(@, rf.name,
                 ByPassFunction(rf.name, map_data_type(rf.return_type)))]
      [] rf.function_type = "Aggregate" ->
             [registry EXCEPT !.Aggregate = HashMap_insert(@, rf.name,
                 ByPassFunction(rf.name, map_data_type(rf.return_type)))]
      [] rf.function_type = "Window" ->
             [registry EXCEPT !.Window = HashMap_insert(@, rf.name,
                 ByPassFunction(rf.name, map_data_type(rf.return_type)))]

\* The mutant hands every transform_sql call one process-wide context.
transform_sql_context_static(c) == CallerCtx

\* transform_sql, line 314: &SessionContext::new(), a context per call
transform_sql_context(c) == c

\* create_ctx_with_mdl: the model-aware context is a new SessionContext
\* built from the state of the given one; it starts with a copy of the
\* function registry.
create_ctx_with_mdl(registry) == registry

Resolved(kind, function) == Ok([kind |-> kind, function |-> function])

\* SessionState::create_logical_plan, as far as the function call of the
\* query goes: a scalar function of the name wins, then an aggregate one;
\* a window function is looked up for a call with OVER only.
create_logical_plan(registry, query) ==
    IF ~query.function.some THEN Ok([kind |-> "none"])
    ELSE IF query.function.v \in DOMAIN registry.Scalar
    THEN Resolved("Scalar", registry.Scalar[query.function.v])
    ELSE IF query.function.v \in DOMAIN registry.Aggregate
    THEN Resolved("Aggregate", registry.Aggregate[query.function.v])
    ELSE IF query.over /\ query.function.v \in DOMAIN registry.Window
    THEN Resolved("Window", registry.Window[query.function.v])
    ELSE Err("Invalid function")

\* lineage::Lineage::new(&wren_mdl): the lineage of every indexed column
Lineage_new(mdl) == [columns |-> DOMAIN mdl.qualified_references]

\* AnalyzedWrenMDL::analyze_with_tables with no table, lines 71-84
AnalyzedWrenMDL_new(mdl) == [wren_mdl |-> mdl, lineage |-> Lineage_new(mdl)]

SampleManifest ==
    IndexManifest("wren", "test",
        <<Model("m", None, <<Column("c", "int", FALSE, FALSE, None)>>, FALSE)>>, <<>>)

TransformIdle ==
    /\ analyzed_mdl = None
    /\ ctx_functions = <<>>
    /\ call_via = <<>>
    /\ call_functions = <<>>
    /\ call_sql = <<>>
    /\ tpc = <<>>
    /\ reg_index = <<>>
    /\ mdl_ctx = <<>>
    /\ call_result = <<>>
    /\ started_after = <<>>

TransformInit ==
    /\ analyzed_mdl = Some(AnalyzedWrenMDL_new(WrenMDL_new(SampleManifest)))
    /\ ctx_functions = [x \in {CallerCtx} \cup Calls |-> SessionContext_new]
    /\ call_via \in [Calls -> {"transform_sql", "transform_sql_with_ctx"}]
    /\ call_functions \in [Calls -> SeqUpTo({RemoteFunction("f", "Scalar", "int"),
                                             RemoteFunction("f", "Scalar", "string"),
                                             RemoteFunction("f", "Aggregate", "int"),
                                             RemoteFunction("h", "Window", "int")},
                                            MaxFunctions)]
    /\ call_sql \in [Calls -> {Query(None, FALSE), Query(Some("f"), FALSE),
                               Query(Some("h"), TRUE)}]
    /\ tpc = [c \in Calls |-> "idle"]
    /\ reg_index = [c \in Calls |-> 1]
    /\ mdl_ctx = [c \in Calls |-> None]
    /\ call_result = [c \in Calls |-> None]
    /\ started_after = [c \in Calls |-> {}]

\* The SessionContext call c runs on.
ctx_of(c) ==
    IF call_via[c] = "transform_sql" THEN transform_sql_context(c) ELSE CallerCtx

\* The call is made: line 330 (and 312-314 for transform_sql).
Start(c) ==
    /\ tpc[c] = "idle"
    /\ tpc' = [tpc EXCEPT ![c] = "register"]
    /\ started_after' = [started_after EXCEPT ![c] = {d \in Calls : tpc[d] = "done"}]
    /\ UNCHANGED <<analyzed_mdl, ctx_functions, call_via, call_functions, call_sql,
                   reg_index, mdl_ctx, call_result>>
    /\ UNCHANGED <<dialectVars, serdeVars, indexVars, inferVars, joinVars, pipelineVars>>

\* One turn of the for_each of lines 331-334.
Register(c) ==
    /\ tpc[c] = "register"
    /\ reg_index[c] <= Len(call_functions[c])
    /\ ctx_functions' = [ctx_functions EXCEPT ![ctx_of(c)] =
           register_remote_function(@, call_functions[c][reg_index[c]])]
    /\ reg_index' = [reg_index EXCEPT ![c] = @ + 1]
    /\ UNCHANGED <<analyzed_mdl, call_via, call_functions, call_sql, tpc,
                   mdl_ctx, call_result, started_after>>
    /\ UNCHANGED <<dialectVars, serdeVars, indexVars, inferVars, joinVars, pipelineVars>>

\* Line 335, once the for_each is through.
CreateCtx(c) ==
    /\ tpc[c] = "register"
    /\ reg_index[c] > Len(call_functions[c])
    /\ mdl_ctx' = [mdl_ctx EXCEPT ![c] = Some(create_ctx_with_mdl(ctx_functions[ctx_of(c)]))]
    /\ tpc' = [tpc EXCEPT ![c] = "plan"]
    /\ UNCHANGED <<analyzed_mdl, ctx_functions, call_via, call_functions, call_sql,
                   reg_index, call_result, started_after>>
    /\ UNCHANGED <<dialectVars, serdeVars, indexVars, inferVars, joinVars, pipelineVars>>

\* Lines 336-353: the query is planned on the model-aware context and the
\* call returns.
Plan(c) ==
    /\ tpc[c] = "plan"
    /\ call_result' = [call_result EXCEPT ![c] = Some(create_logical_plan(mdl_ctx[c].v, call_sql[c]))]
    /\ tpc' = [tpc EXCEPT ![c] = "done"]
    /\ UNCHANGED <<analyzed_mdl, ctx_functions, call_via, call_functions, call_sql,
                   reg_index, mdl_ctx, started_after>>
    /\ UNCHANGED <<dialectVars, serdeVars, indexVars, inferVars, joinVars, pipelineVars>>

----------------------------------------------------------------------------
(* JoinType, manifest.rs 188-216 *)

JoinTypes == {"OneToOne", "OneToMany", "ManyToOne", "ManyToMany"}

\* The words of a variant's name, as serde's rename rules split it.
variant_words(v) ==
    CASE v = "OneToOne" -> <<"One", "To", "One">>
      [] v = "OneToMany" -> <<"One", "To", "Many">>
      [] v = "ManyToOne" -> <<"Many", "To", "One">>
      [] v = "ManyToMany" -> <<"Many", "To", "Many">>

word_to_uppercase(w) ==
    CASE w = "One" -> "ONE"
      [] w = "To" -> "TO"
      [] w = "Many" -> "MANY"

rename_all_joined_without_underscore(v) ==
    word_to_uppercase(variant_words(v)[1])
        \o word_to_uppercase(variant_words(v)[2])
        \o word_to_uppercase(variant_words(v)[3])

\* #[serde(rename_all = "SCREAMING_SNAKE_CASE")], line 189
rename_all(v) ==
    word_to_uppercase(variant_words(v)[1]) \o "_"
        \o word_to_uppercase(variant_words(v)[2]) \o "_"
        \o word_to_uppercase(variant_words(v)[3])

\* #[serde(alias = "...")], lines 191-197
alias(v) ==
    CASE v = "OneToOne" -> "one_to_one"
      [] v = "OneToMany" -> "one_to_many"
      [] v = "ManyToOne" -> "many_to_one"
      [] v = "ManyToMany" -> "many_to_many"

\* derive(Deserialize) of the enum: a string that is the name or the alias
\* of a variant.
JoinType_deserialize(j) ==
    IF j.t = "absent" THEN Err("missing field joinType")
    ELSE IF j.t # "str" THEN Err("invalid type, expected variant identifier")
    ELSE IF \E v \in JoinTypes : j.s \in {rename_all(v), alias(v)}
    THEN Ok(CHOOSE v \in JoinTypes : j.s \in {rename_all(v), alias(v)})
    ELSE Err("unknown variant")

is_to_one_only_one_to_one(v) == v = "OneToOne"

\* JoinType::is_to_one, lines 202-204
is_to_one(v) == v \in {"OneToOne", "ManyToOne"}

\* impl Display for JoinType, lines 207-216
JoinType_fmt(v) ==
    CASE v = "OneToOne" -> "one_to_one"
      [] v = "OneToMany" -> "one_to_many"
      [] v = "ManyToOne" -> "many_to_one"
      [] v = "ManyToMany" -> "many_to_many"

\* The joinType values of a producer: values that are no string, texts
\* that are no join type, and the literals made of two cardinality words
\* around "to", each word in lower, upper or capitalised spelling, joined
\* by "_", "-" or nothing.
JoinTypeDocs ==
    {JAbsent, JNull, JNum(1), JBool(TRUE), JStr(""), JStr("one"), JStr("ONE_TO_ONE ")}
        \cup {JStr(a \o sep \o t \o sep \o b) :
                a \in {"one", "ONE", "One", "many", "MANY", "Many"},
                t \in {"to", "TO", "To"},
                b \in {"one", "ONE", "One", "many", "MANY", "Many"},
                sep \in {"_", "-", ""}}

JoinIdle ==
    /\ join_doc = JAbsent
    /\ join_type = None
    /\ join_text = None
    /\ to_one = None
    /\ join_parsed = None
    /\ jpc = "idle"

JoinInit ==
    /\ join_doc \in JoinTypeDocs
    /\ join_type = None
    /\ join_text = None
    /\ to_one = None
    /\ join_parsed = None
    /\ jpc = "json"

JoinTypeRead(r) ==
    /\ join_type' = IF r.ok THEN Some(r.v) ELSE None
    /\ jpc' = IF r.ok THEN "value" ELSE "de_error"

\* serde_json::from_str of the joinType of a relationship
DeserializeJoinType ==
    /\ jpc = "json"
    /\ JoinTypeRead(JoinType_deserialize(join_doc))
    /\ UNCHANGED <<join_doc, join_text, to_one, join_parsed>>
    /\ UNCHANGED <<dialectVars, serdeVars, indexVars, inferVars, transformVars, pipelineVars>>

\* join_type.is_to_one()
IsToOne ==
    /\ jpc = "value"
    /\ to_one' = Some(is_to_one(join_type.v))
    /\ jpc' = "asked"
    /\ UNCHANGED <<join_doc, join_type, join_text, join_parsed>>
    /\ UNCHANGED <<dialectVars, serdeVars, indexVars, inferVars, transformVars, pipelineVars>>

\* join_type.to_string(), through Display
DisplayJoinType ==
    /\ jpc \in {"value", "asked"}
    /\ join_text' = Some(JoinType_fmt(join_type.v))
    /\ jpc' = "shown"
    /\ UNCHANGED <<join_doc, join_type, to_one, join_parsed>>
    /\ UNCHANGED <<dialectVars, serdeVars, indexVars, inferVars, transformVars, pipelineVars>>

\* The displayed text, read as a joinType again
ParseDisplayed ==
    /\ jpc = "shown"
    /\ join_parsed' = Some(JoinType_deserialize(JStr(join_text.v)))
    /\ jpc' = "parsed"
    /\ UNCHANGED <<join_doc, join_type, join_text, to_one>>
    /\ UNCHANGED <<dialectVars, serdeVars, indexVars, inferVars, transformVars, pipelineVars>>

----------------------------------------------------------------------------
(* Analysis and the transform pipeline: AnalyzedWrenMDL::analyze and the   *)
(* stages of transform_sql_with_ctx, mod.rs 65-69, 174-195, 324-354.       *)

PipelineIdle ==
    /\ src_manifest = None
    /\ analysis = None
    /\ statement = None
    /\ stage = "idle"
    /\ outcome = None
    /\ ran = <<>>

\* Model::table_reference(), manifest.rs 46-50: the text of the reference,
\* the empty text when there is none.
Model_table_reference(model) ==
    IF model.table_reference.some THEN model.table_reference.v ELSE <<>>

\* TableReference::from(&str) of line 180, the parts of the reference it
\* builds: the text is split at its dots and every unquoted part is put
\* in lower case; one, two or three parts make a bare, partial or full
\* reference, any other text is taken whole as the table of a bare one.
TableReference_from(s) ==
    LET parts == split_dot(s)
    IN  IF Len(parts) <= 3 /\ \A i \in DOMAIN parts : parts[i] # <<>>
        THEN [i \in DOMAIN parts |-> to_lowercase(parts[i])]
        ELSE <<s>>

\* quote_identifier, as to_quoted_string of line 188 applies it to every
\* part: the part is put between double quotes unless it is spelled
\* [a-z_][a-z0-9_]*; the empty part is left as it is.
quote_identifier(part) ==
    IF \/ Len(part) >= 1 /\ part[1] \notin AsciiLower \cup {"_"}
       \/ \E i \in 2..Len(part) : part[i] \notin AsciiLower \cup AsciiDigit \cup {"_"}
    THEN <<"\"">> \o part \o <<"\"">>
    ELSE part

\* The parts of a name, joined by dots.
join_dot(parts) ==
    LET upto[i \in 0..Len(parts)] ==
            IF i = 0 THEN <<>>
            ELSE IF i = 1 THEN parts[1]
            ELSE upto[i - 1] \o <<".">> \o parts[i]
    IN  upto[Len(parts)]

\* TableReference::to_quoted_string of line 188
to_quoted_string(parts) ==
    join_dot([i \in DOMAIN parts |-> quote_identifier(parts[i])])

\* lines 181-185: filter_map(infer_source_column) over the columns
inferred_fields(columns) ==
    flatten([j \in DOMAIN columns |->
                IF infer_source_column(columns[j]).some
                THEN <<infer_source_column(columns[j]).v>>
                ELSE <<>>])

\* lines 178-190: one (name, data source) pair per model
sources(m) ==
    [i \in DOMAIN m.models |->
        <<to_quoted_string(TableReference_from(Model_table_reference(m.models[i]))),
          WrenDataSource_new_with_schema(inferred_fields(m.models[i].columns))>>]

\* WrenMDL::infer_and_register_remote_table, lines 174-195: the pairs are
\* registered one after the other on the index of the manifest.
infer_and_register_remote_table(m) ==
    LET upto[i \in 0..Len(m.models)] ==
            IF i = 0 THEN WrenMDL_new(m)
            ELSE register_table(upto[i - 1], sources(m)[i][1], sources(m)[i][2])
    IN  upto[Len(m.models)]

\* The columns an expression text of ExprSqls refers to.
referenced_columns(sql) ==
    CASE sql \in {"a", "\"a\"", "lower(a)", "a + 1", "a || a"} -> {"a"}
      [] sql = "a.b"  -> {"b"}
      [] sql = "\"a\".\"b\".\"c\"" -> {"c"}
      [] OTHER -> {}

\* Lineage::new fails on a calculated column whose expression refers to a
\* column its model does not have: these are the references it cannot
\* resolve, as <<model, column, reference>>.
Lineage_unresolved(mdl) ==
    {<<i, j, r>> \in
        UNION {UNION {{<<i, j, r>> : r \in
                          IF mdl.manifest.models[i].columns[j].expression.some
                          THEN referenced_columns(mdl.manifest.models[i].columns[j].expression.v)
                          ELSE {}}
                      : j \in DOMAIN mdl.manifest.models[i].columns}
               : i \in DOMAIN mdl.manifest.models} :
        /\ mdl.manifest.models[i].columns[j].is_calculated
        /\ \A k \in DOMAIN mdl.manifest.models[i].columns :
               mdl.manifest.models[i].columns[k].name # r}

\* AnalyzedWrenMDL::analyze, lines 65-69: the index with its registry,
\* Lineage::new(&wren_mdl)? and the value built from the two
AnalyzedWrenMDL_analyze(m) ==
    IF Lineage_unresolved(infer_and_register_remote_table(m)) # {}
    THEN Err([kind |-> "unresolved reference", detail |-> ""])
    ELSE Ok(AnalyzedWrenMDL_new(infer_and_register_remote_table(m)))

MaxSourceModels == 2

\* The column lists of the models.  In the second the expression of d
\* refers to a column a that no column supplies; in the third a comes from
\* the expression of c, in the fourth it is declared; in the last d is a
\* calculated column, which lineage resolves.
SourceColumnLists ==
    {<<Column("c", "int", FALSE, FALSE, None)>>,
     <<Column("c", "int", FALSE, FALSE, None),
       Column("d", "string", FALSE, FALSE, Some("a || a"))>>,
     <<Column("c", "int", FALSE, TRUE, Some("a")),
       Column("d", "string", FALSE, FALSE, Some("a || a"))>>,
     <<Column("a", "string", FALSE, FALSE, None),
       Column("d", "string", FALSE, FALSE, Some("lower(a)"))>>,
     <<Column("c", "int", FALSE, FALSE, None),
       Column("d", "string", TRUE, FALSE, Some("a || a"))>>}

\* The manifests analysed: up to MaxSourceModels models, named by their
\* position, each with one of the column lists and with no table
\* reference, a table, the same table in upper case or a table under a
\* schema.
AnalyzeManifests ==
    UNION {{IndexManifest(<<"o">>, <<"n">>,
                [i \in 1..n |-> Model(<<"m", "n", "k">>[i], f[i][1], f[i][2], FALSE)],
                <<>>) :
                f \in [1..n -> {None, Some(<<"t">>), Some(<<"T">>), Some(<<"o", ".", "t">>)}
                               \X SourceColumnLists]}
           : n \in 0..MaxSourceModels}

AnalyzeInit ==
    /\ src_manifest \in {Some(m) : m \in AnalyzeManifests}
    /\ analysis = None
    /\ statement = None
    /\ stage = "manifest"
    /\ outcome = None
    /\ ran = <<>>

\* AnalyzedWrenMDL::analyze(manifest)
Analyze ==
    /\ stage = "manifest"
    /\ analysis' = Some(AnalyzedWrenMDL_analyze(src_manifest.v))
    /\ stage' = IF analysis'.v.ok THEN "analyzed" ELSE "failed"
    /\ UNCHANGED <<src_manifest, statement, outcome, ran>>
    /\ UNCHANGED <<dialectVars, serdeVars, indexVars, inferVars, transformVars, joinVars>>

\* An error of the engine is [kind, detail]: what failed and the name it
\* failed on.  A view (manifest.rs 256-262) is [name, statement].

\* WrenMDL::get_model, lines 270-276; the name is one of the manifest's
get_model(mdl, name) ==
    mdl.manifest.models[CHOOSE i \in DOMAIN mdl.manifest.models :
                            mdl.manifest.models[i].name = name]

\* line 335: create_ctx_with_mdl(ctx, analyzed_mdl, false).await.  The
\* model-aware context has the function registry of the caller's context
\* and knows every model and every view by its name as a relation.  A view
\* whose statement is not SQL cannot be planned and fails the construction
\* of the context.
ctx_with_mdl(registry, mdl) ==
    IF \E i \in DOMAIN mdl.manifest.views : mdl.manifest.views[i].statement = "selec"
    THEN Err([kind |-> "SQL error: ParserError", detail |-> "selec"])
    ELSE Ok([functions |-> create_ctx_with_mdl(registry),
             relations |-> {mdl.manifest.models[i].name : i \in DOMAIN mdl.manifest.models}
                           \cup {mdl.manifest.views[i].name : i \in DOMAIN mdl.manifest.views}])

\* line 336: ctx.state().create_logical_plan(sql).await.  The text is
\* parsed, the relation is looked up in the context and the column in the
\* relation.
statement_to_plan(ctx, mdl, st) ==
    IF st.kind = "garbage"
    THEN Err([kind |-> "SQL error: ParserError", detail |-> ""])
    ELSE IF st.relation \notin ctx.relations
    THEN Err([kind |-> "Error during planning: table not found", detail |-> st.relation])
    ELSE IF \A j \in DOMAIN get_model(mdl, st.relation).columns :
                get_model(mdl, st.relation).columns[j].name # st.column
    THEN Err([kind |-> "Schema error: No field named", detail |-> st.column])
    ELSE Ok([kind |-> st.kind, model |-> st.relation, column |-> st.column,
             literal |-> st.literal, optimized |-> FALSE, qualified |-> TRUE])

\* The column of the given name; the model has one.
get_column(model, name) ==
    model.columns[CHOOSE j \in DOMAIN model.columns : model.columns[j].name = name]

\* ModelAnalyzeRule on a model column col and the data source table
\* registered for its model: the model is expanded into a scan of the data
\* source.  The scan needs the physical columns the expression of col
\* refers to, col itself when it has no expression; one that is not a
\* field of the data source is a schema error naming it.  Whether the
\* expanded plan still names the model by catalog and schema is decided by
\* the rule.
model_analyze(plan, col, table, qualified) ==
    LET required == IF col.expression.some
                    THEN referenced_columns(col.expression.v)
                    ELSE {col.name}
        fields == IF table.some
                  THEN {table.v.schema[k].name : k \in DOMAIN table.v.schema}
                  ELSE {}
    IN  IF required \ fields # {}
        THEN Err([kind |-> "ModelAnalyzeRule caused by Schema error: No field named",
                  detail |-> CHOOSE x \in required \ fields : TRUE])
        ELSE Ok([plan EXCEPT !.optimized = TRUE, !.qualified = qualified])

\* line 338: ctx.state().optimize(&plan)
optimize(mdl, plan, qualified) ==
    model_analyze(plan,
                  get_column(get_model(mdl, plan.model), plan.column),
                  get_table(mdl, to_quoted_string(TableReference_from(
                      Model_table_reference(get_model(mdl, plan.model))))),
                  qualified)

\* Unparser::new(&WrenDialect {}), line 341: an identifier is written
\* between the quotes identifier_quote_style gives it.
ident(id) ==
    IF identifier_quote_style(id).some
    THEN <<identifier_quote_style(id).v>> \o id \o <<identifier_quote_style(id).v>>
    ELSE id

\* The path of the model's physical table, part by part.
table_path(model) ==
    join_dot([i \in DOMAIN TableReference_from(Model_table_reference(model)) |->
                 ident(TableReference_from(Model_table_reference(model))[i])])

\* The expression of a column over its physical table.
source_expression(col, path) ==
    IF ~col.expression.some THEN path \o <<".">> \o ident(<<col.name>>)
    ELSE CASE col.expression.v = "a || a" ->
                  path \o <<".", "a", " || ">> \o path \o <<".", "a">>
           [] col.expression.v = "lower(a)" -> <<"lower(">> \o path \o <<".", "a", ")">>
           [] OTHER -> path \o <<".", "a">>

\* The name the outer query calls the model by.
relation_name(m, model, qualified) ==
    IF qualified
    THEN ident(m.catalog) \o <<".">> \o ident(m.schema) \o <<".">> \o ident(<<model.name>>)
    ELSE ident(<<model.name>>)

literal_text(literal) ==
    IF literal.some THEN <<", ", "'">> \o literal.v \o <<"'">> ELSE <<>>

\* The text of the expanded SELECT, a sequence of characters and words.
select_text(relation, col, literal, source, path, as_name) ==
    <<"SELECT ">> \o relation \o <<".">> \o col \o literal
    \o <<" FROM (SELECT ">> \o source \o <<" AS ">> \o col
    \o <<" FROM ">> \o path \o <<") AS ">> \o as_name

\* lines 343 and 352: unparser.plan_to_sql(&analyzed); EXPLAIN has no SQL.
plan_to_sql(mdl, plan) ==
    IF plan.kind = "explain"
    THEN Err([kind |-> "This feature is not implemented: Unsupported plan", detail |-> "Explain"])
    ELSE Ok(select_text(relation_name(mdl.manifest, get_model(mdl, plan.model), plan.qualified),
                        ident(<<plan.column>>),
                        literal_text(plan.literal),
                        source_expression(get_column(get_model(mdl, plan.model), plan.column),
                                          table_path(get_model(mdl, plan.model))),
                        table_path(get_model(mdl, plan.model)),
                        ident(<<plan.model>>)))

\* str::replace(from, ""): every occurrence of from, found from left to
\* right and not overlapping an earlier one, is taken out.
replace_with_nothing(s, from) ==
    LET rest[i \in 1..(Len(s) + 1)] ==
            IF i > Len(s) THEN <<>>
            ELSE IF /\ i + Len(from) - 1 <= Len(s)
                    /\ SubSeq(s, i, i + Len(from) - 1) = from
            THEN rest[i + Len(from)]
            ELSE <<s[i]>> \o rest[i + 1]
    IN  rest[1]

\* lines 345-350; the prefix is the String that format!("{}.{}.", catalog,
\* schema) made of its four pieces.
replaced(mdl, sql) ==
    Ok(replace_with_nothing(sql, mdl.catalog_schema_prefix[1] \o <<mdl.catalog_schema_prefix[2]>>
                                 \o mdl.catalog_schema_prefix[3] \o <<mdl.catalog_schema_prefix[4]>>))

\* The variant goes from planning to unparsing.
next_stage_without_optimize(s, r) ==
    IF ~r.ok THEN "done"
    ELSE CASE s = "ctx" -> "plan"
           [] s = "plan" -> "unparse"
           [] s = "optimize" -> "unparse"
           [] s = "unparse" -> "strip"
           [] s = "strip" -> "done"

\* What runs after stage s gave r: `?` of lines 335, 336 and 338 and the
\* Err arm of line 352 return at once, otherwise the next line runs.
next_stage(s, r) ==
    IF ~r.ok THEN "done"
    ELSE CASE s = "ctx" -> "plan"
           [] s = "plan" -> "optimize"
           [] s = "optimize" -> "unparse"
           [] s = "unparse" -> "strip"
           [] s = "strip" -> "done"

\* The manifests of the calls: one model m over no table reference, a
\* table, or a table under a catalog o and a schema n; no view, a view, or
\* a view whose statement is not SQL.
PipelineManifests ==
    {[views |-> views] @@
     IndexManifest(catalog, schema, <<Model("m", ref, columns, FALSE)>>, <<>>) :
        catalog \in {<<"o">>, <<"O">>, <<"o", "n">>},
        schema \in {<<"n">>, <<"N">>},
        ref \in {None, Some(<<"t">>), Some(<<"o", ".", "n", ".", "t">>)},
        columns \in SourceColumnLists,
        views \in {<<>>,
                   <<[name |-> "v", statement |-> "select c from m"]>>,
                   <<[name |-> "v", statement |-> "selec"]>>}}

\* The sql of a call: a SELECT of one column of one relation with an
\* optional string literal beside it (a letter, or a text that holds
\* "o.n."), the same under EXPLAIN, or a text that is not SQL.
Statements ==
    {[kind |-> "select", relation |-> relation, column |-> col, literal |-> literal] :
        relation \in {"m", "x"}, col \in {"c", "d"},
        literal \in {None, Some(<<"a">>), Some(<<"o", ".", "n", ".", "a">>)}}
    \cup {[kind |-> kind, relation |-> "m", column |-> "c", literal |-> None] :
            kind \in {"explain", "garbage"}}

PipelineInit ==
    /\ src_manifest \in {Some(m) : m \in PipelineManifests}
    /\ analysis = None
    /\ statement \in {Some(st) : st \in Statements}
    /\ stage = "manifest"
    /\ outcome = None
    /\ ran = <<>>

\* One stage has run and given r.  The call returns the error of `?` and
\* of the Err arm and Ok(replaced) of line 350, nothing yet otherwise.
Ran(s, r) ==
    /\ ran' = Append(ran, [stage |-> s, result |-> r])
    /\ stage' = next_stage(s, r)
    /\ outcome' = IF ~r.ok \/ s = "strip" THEN Some(r) ELSE None
    /\ UNCHANGED <<src_manifest, analysis, statement>>
    /\ UNCHANGED <<dialectVars, serdeVars, indexVars, inferVars, transformVars, joinVars>>

\* line 335; the call is made on a new context and with no remote function
CreateContext ==
    /\ stage = "analyzed"
    /\ statement.some
    /\ Ran("ctx", ctx_with_mdl(SessionContext_new, analysis.v.v.wren_mdl))

\* line 336
CreateLogicalPlan ==
    /\ stage = "plan"
    /\ Ran("plan", statement_to_plan(ran[Len(ran)].result.v, analysis.v.v.wren_mdl, statement.v))

\* line 338
Optimize ==
    /\ stage = "optimize"
    /\ \E qualified \in BOOLEAN :
           Ran("optimize", optimize(analysis.v.v.wren_mdl, ran[Len(ran)].result.v, qualified))

\* lines 341-343 and 352
PlanToSql ==
    /\ stage = "unparse"
    /\ Ran("unparse", plan_to_sql(analysis.v.v.wren_mdl, ran[Len(ran)].result.v))

\* lines 344-350
StripPrefix ==
    /\ stage = "strip"
    /\ Ran("strip", replaced(analysis.v.v.wren_mdl, ran[Len(ran)].result.v))

----------------------------------------------------------------------------
(* Specifications *)

InitDialect ==
    DialectInit /\ SerdeIdle /\ IndexIdle /\ InferIdle /\ TransformIdle /\ JoinIdle /\ PipelineIdle

NextDialect == QuoteIdentifier

SpecDialect == InitDialect /\ [][NextDialect]_vars

InitSerde ==
    SerdeInit /\ DialectIdle /\ IndexIdle /\ InferIdle /\ TransformIdle /\ JoinIdle /\ PipelineIdle

NextSerde == Load \/ Save \/ Reload

SpecSerde == InitSerde /\ [][NextSerde]_vars

InitIndex ==
    IndexInit /\ DialectIdle /\ SerdeIdle /\ InferIdle /\ TransformIdle /\ JoinIdle /\ PipelineIdle

NextIndex == NewMDL \/ GetColumnReference

SpecIndex == InitIndex /\ [][NextIndex]_vars

InitInfer ==
    InferInit /\ DialectIdle /\ SerdeIdle /\ IndexIdle /\ TransformIdle /\ JoinIdle /\ PipelineIdle

NextInfer == InferSourceColumn

SpecInfer == InitInfer /\ [][NextInfer]_vars

\* The concurrent transform calls
Init ==
    TransformInit /\ DialectIdle /\ SerdeIdle /\ IndexIdle /\ InferIdle /\ JoinIdle /\ PipelineIdle

Next == \E c \in Calls : Start(c) \/ Register(c) \/ CreateCtx(c) \/ Plan(c)

Spec == Init /\ [][Next]_vars

\* The register_table calls on a built index
InitRegistry ==
    RegistryInit /\ DialectIdle /\ SerdeIdle /\ InferIdle /\ TransformIdle /\ JoinIdle /\ PipelineIdle

NextRegistry == NewMDL \/ RegisterTable

SpecRegistry == InitRegistry /\ [][NextRegistry]_vars

\* The joinType of a relationship, read, asked and displayed
InitAnalyze ==
    DialectIdle /\ SerdeIdle /\ IndexIdle /\ InferIdle /\ TransformIdle /\ JoinIdle /\ AnalyzeInit

NextAnalyze == Analyze

SpecAnalyze == InitAnalyze /\ [][NextAnalyze]_vars

InitPipeline ==
    DialectIdle /\ SerdeIdle /\ IndexIdle /\ InferIdle /\ TransformIdle /\ JoinIdle /\ PipelineInit

NextPipeline ==
    Analyze \/ CreateContext \/ CreateLogicalPlan \/ Optimize \/ PlanToSql \/ StripPrefix

SpecPipeline == InitPipeline /\ [][NextPipeline]_vars

InitJoin ==
    JoinInit /\ DialectIdle /\ SerdeIdle /\ IndexIdle /\ InferIdle /\ TransformIdle /\ PipelineIdle

NextJoin == DeserializeJoinType \/ IsToOne \/ DisplayJoinType \/ ParseDisplayed

SpecJoin == InitJoin /\ [][NextJoin]_vars

----------------------------------------------------------------------------
(* C1 *)

\* ^[a-z_][a-z0-9_]*$
IsLowerIdent(s) ==
    /\ Len(s) >= 1
    /\ s[1] \in AsciiLower \cup {"_"}
    /\ \A i \in 2..Len(s) : s[i] \in AsciiLower \cup AsciiDigit \cup {"_"}

\* C1: identifier_quote_style returns None exactly for the identifiers that
\* match ^[a-z_][a-z0-9_]*$ and whose upper-cased form is not a reserved
\* keyword; every other identifier gets the double quote.
C1_QuoteIffNotPlainLower ==
    dpc = "done" =>
        /\ (IsLowerIdent(identifier) /\ to_uppercase(identifier) \notin ALL_KEYWORDS)
              => quote_style = None
        /\ ~(IsLowerIdent(identifier) /\ to_uppercase(identifier) \notin ALL_KEYWORDS)
              => quote_style = Some("\"")

\* A lower-case keyword has been quoted and nothing else forces the quote.
C1_Witness ==
    /\ dpc = "done"
    /\ identifier = <<"o", "n">>
    /\ quote_style = Some("\"")
----------------------------------------------------------------------------
(* C2 *)

\* C2: a Manifest that serialized successfully deserializes again, to a
\* value equal to the one that was serialized.
C2_ManifestRoundTrip ==
    spc \in {"reloaded", "reload_error"} =>
        /\ spc = "reloaded"
        /\ manifest = original

----------------------------------------------------------------------------
(* C3 *)

\* 1, 2 or 3 dot-separated segments, none of them empty
WellFormedRef(s) ==
    LET segs == split_dot(s)
    IN  /\ Len(segs) \in 1..3
        /\ \A i \in DOMAIN segs : segs[i] # <<>>

\* The tableReference object the claim expects for the segments.
ExpectedTableReference(segs) ==
    JObj([catalog |-> IF Len(segs) = 3 THEN JStr(segs[1]) ELSE JNull,
          schema |-> IF Len(segs) >= 2 THEN JStr(segs[Len(segs) - 1]) ELSE JNull,
          table |-> JStr(segs[Len(segs)])])

\* C3: a table_reference of 1 to 3 non-empty segments is written as table,
\* schema+table or catalog+schema+table, and reading that object back gives
\* Some of the same string.
C3_TableReferenceRoundTrip ==
    (original.some /\ spc \in {"saved", "ser_error", "reloaded", "reload_error"}) =>
        \A i \in DOMAIN original.v.models :
            LET tr == original.v.models[i].table_reference
            IN  (tr.some /\ WellFormedRef(tr.v)) =>
                    /\ spc \in {"saved", "reloaded"}
                    /\ doc.o.models.a[i].o.tableReference
                           = ExpectedTableReference(split_dot(tr.v))
                    /\ spc = "reloaded" =>
                           manifest.v.models[i].table_reference = tr

\* A 2-segment reference has been written without catalog and read back.
C3_Witness ==
    /\ spc = "reloaded"
    /\ original.v.models[1].table_reference = Some(<<"a", "b", ".", "b">>)
    /\ doc.o.models.a[1].o.tableReference.o.catalog = JNull
    /\ manifest.v.models[1].table_reference = Some(<<"a", "b", ".", "b">>)

----------------------------------------------------------------------------
(* C4 *)

BoolFields == {"cached", "isCalculated", "notNull"}

\* The JSON value of a boolean field of the loaded document
DocFlag(k) ==
    CASE k = "cached" -> doc.o.models.a[1].o.cached
      [] k = "isCalculated" -> doc.o.models.a[1].o.columns.a[1].o.isCalculated
      [] k = "notNull" -> doc.o.models.a[1].o.columns.a[1].o.notNull

\* The field of the Manifest it was loaded into
LoadedFlag(k) ==
    CASE k = "cached" -> manifest.v.models[1].cached
      [] k = "isCalculated" -> manifest.v.models[1].columns[1].is_calculated
      [] k = "notNull" -> manifest.v.models[1].columns[1].not_null

AfterLoad == doc # JAbsent /\ spc \in {"value", "de_error"}

\* What the claim says a field's JSON value is loaded as.
ClaimedFlag(j) ==
    CASE j.t = "bool" -> j.b
      [] j.t = "num" -> j.n # 0
      [] OTHER -> FALSE

\* C4 as claimed: 0 gives false, every non-zero integer of either sign
\* gives true, a boolean gives itself.
C4_AnyNonZeroIsTrue ==
    (AfterLoad /\ \A k \in BoolFields : DocFlag(k).t \in {"absent", "bool", "num"}) =>
        /\ spc = "value"
        /\ \A k \in BoolFields : LoadedFlag(k) = ClaimedFlag(DocFlag(k))

\* C4: 0 gives false, every positive integer gives true, a boolean gives
\* itself, and a negative integer is rejected with a deserialization error.
C4_NonNegativeIntOrBool ==
    AfterLoad =>
        /\ (\E k \in BoolFields : DocFlag(k).t = "num" /\ DocFlag(k).n < 0) =>
               spc = "de_error"
        /\ (\A k \in BoolFields :
                \/ DocFlag(k).t \in {"absent", "bool"}
                \/ DocFlag(k).t = "num" /\ DocFlag(k).n >= 0) =>
               /\ spc = "value"
               /\ \A k \in BoolFields : LoadedFlag(k) = ClaimedFlag(DocFlag(k))

\* notNull: 2 has been loaded as true.
C4_Witness ==
    /\ AfterLoad
    /\ spc = "value"
    /\ DocFlag("notNull") = JNum(2)
    /\ LoadedFlag("notNull") = TRUE
----------------------------------------------------------------------------
(* C5 *)

\* The (dataset, column) pairs of a manifest, by their place in it.
Pairs(m) ==
    UNION {{[kind |-> "Model", d |-> i, role |-> "column", c |-> j] :
                j \in DOMAIN m.models[i].columns} : i \in DOMAIN m.models}
    \cup UNION {{[kind |-> "Metric", d |-> i, role |-> "dimension", c |-> j] :
                j \in DOMAIN m.metrics[i].dimension} : i \in DOMAIN m.metrics}
    \cup UNION {{[kind |-> "Metric", d |-> i, role |-> "measure", c |-> j] :
                j \in DOMAIN m.metrics[i].measure} : i \in DOMAIN m.metrics}

PairDataset(m, p) == IF p.kind = "Model" THEN m.models[p.d] ELSE m.metrics[p.d]

PairColumn(m, p) ==
    CASE p.role = "column" -> m.models[p.d].columns[p.c]
      [] p.role = "dimension" -> m.metrics[p.d].dimension[p.c]
      [] p.role = "measure" -> m.metrics[p.d].measure[p.c]

\* <<dataset name, column name>> of a pair
PairNames(m, p) == <<PairDataset(m, p).name, PairColumn(m, p).name>>

\* The keys under which the index holds a reference with these names
KeysOf(names) ==
    {k \in DOMAIN wren_mdl.v.qualified_references :
        /\ wren_mdl.v.qualified_references[k].dataset.name = names[1]
        /\ wren_mdl.v.qualified_references[k].column.name = names[2]}

\* Models come before metrics, a metric's dimensions before its measures.
PairRank(p) ==
    <<IF p.kind = "Model" THEN 0 ELSE 1, p.d, IF p.role = "measure" THEN 1 ELSE 0, p.c>>

InsertedBefore(p, q) ==
    LET a == PairRank(p)
        b == PairRank(q)
    IN  \E i \in 1..4 : a[i] < b[i] /\ \A j \in 1..(i - 1) : a[j] = b[j]

\* C5 as claimed: no insertion overwrites an earlier one, the map has as
\* many entries as the manifest has (dataset, column) pairs.
C5_OneEntryPerPair ==
    mpc = "built" =>
        Cardinality(DOMAIN wren_mdl.v.qualified_references)
            = Cardinality(Pairs(mdl_manifest.v))

\* C5: pairs that differ in dataset name or column name are stored under
\* distinct keys; pairs with the same two names share one key, which holds
\* the pair inserted last; the map has as many entries as there are distinct
\* <<dataset name, column name>>.
C5_OneEntryPerNamePair ==
    mpc = "built" =>
        /\ \A p \in Pairs(mdl_manifest.v) :
               /\ Cardinality(KeysOf(PairNames(mdl_manifest.v, p))) = 1
               /\ \A k \in KeysOf(PairNames(mdl_manifest.v, p)) :
                      \E q \in Pairs(mdl_manifest.v) :
                          /\ PairNames(mdl_manifest.v, q) = PairNames(mdl_manifest.v, p)
                          /\ wren_mdl.v.qualified_references[k].dataset.kind = q.kind
                          /\ \A r \in Pairs(mdl_manifest.v) :
                                 PairNames(mdl_manifest.v, r) = PairNames(mdl_manifest.v, p)
                                     => (r = q \/ InsertedBefore(r, q))
        /\ \A p, q \in Pairs(mdl_manifest.v) :
               PairNames(mdl_manifest.v, p) # PairNames(mdl_manifest.v, q)
                   => KeysOf(PairNames(mdl_manifest.v, p))
                          \cap KeysOf(PairNames(mdl_manifest.v, q)) = {}
        /\ Cardinality(DOMAIN wren_mdl.v.qualified_references)
               = Cardinality({PairNames(mdl_manifest.v, p) : p \in Pairs(mdl_manifest.v)})

\* A model and a metric own a column of the same short name; a dimension
\* and a measure of the metric share their name: three pairs, two entries.
C5_Witness ==
    /\ mpc = "built"
    /\ Len(mdl_manifest.v.models) = 1
    /\ Len(mdl_manifest.v.metrics) = 1
    /\ mdl_manifest.v.models[1].name = "m"
    /\ mdl_manifest.v.metrics[1].name = "n"
    /\ Len(mdl_manifest.v.models[1].columns) = 1
    /\ mdl_manifest.v.models[1].columns[1].name = "c"
    /\ Len(mdl_manifest.v.metrics[1].dimension) = 1
    /\ mdl_manifest.v.metrics[1].dimension[1].name = "c"
    /\ Len(mdl_manifest.v.metrics[1].measure) = 1
    /\ mdl_manifest.v.metrics[1].measure[1].name = "c"
    /\ Cardinality(DOMAIN wren_mdl.v.qualified_references) = 2

----------------------------------------------------------------------------
(* C6 *)

\* The expression texts that are a bare identifier or a dotted chain of
\* identifiers, each with the chain's last identifier.
ChainLast ==
    [sql \in {"a", "\"a\"", "a.b", "\"a\".\"b\".\"c\""} |->
        CASE sql = "a" -> "a"
          [] sql = "\"a\"" -> "a"
          [] sql = "a.b" -> "b"
          [] sql = "\"a\".\"b\".\"c\"" -> "c"]

\* C6: infer_source_column yields a field exactly for a column that is not
\* calculated, has no relationship, and has no expression (field named as
\* the column) or an identifier-chain expression (field named as the
\* chain's last identifier); every other column yields None.
C6_FieldOnlyForSourceColumns ==
    ipc = "done" =>
        LET c == column.v
        IN  IF ~c.is_calculated /\ ~c.relationship.some /\ ~c.expression.some
            THEN field.some /\ field.v.name = c.name
            ELSE IF /\ ~c.is_calculated /\ ~c.relationship.some
                    /\ c.expression.v \in DOMAIN ChainLast
            THEN field.some /\ field.v.name = ChainLast[c.expression.v]
            ELSE field = None

\* A three-part chain has given the field named by its last identifier.
C6_Witness ==
    /\ ipc = "done"
    /\ column.v.expression = Some("\"a\".\"b\".\"c\"")
    /\ field.some
    /\ field.v.name = "c"

----------------------------------------------------------------------------
(* C7 *)

\* C7: every field infer_source_column produces has the mapping of the
\* column's declared type and is nullable exactly when not_null is false.
C7_DeclaredTypeAndNullability ==
    (ipc = "done" /\ field.some) =>
        /\ field.v.data_type = map_data_type(column.v.type)
        /\ field.v.nullable = ~column.v.not_null
----------------------------------------------------------------------------
(* C8 *)

\* The registry of a new context after the for_each of a call run alone.
RegisteredAlone(fs) ==
    LET upto[i \in 0..Len(fs)] ==
            IF i = 0 THEN SessionContext_new
            ELSE register_remote_function(upto[i - 1], fs[i])
    IN  upto[Len(fs)]

\* What the call returns when no other call runs.
AloneResult(c) ==
    create_logical_plan(create_ctx_with_mdl(RegisteredAlone(call_functions[c])),
                        call_sql[c])

\* The Analyzed Model the calls were handed.
AnalyzedModelAsBuilt == Some(AnalyzedWrenMDL_new(WrenMDL_new(SampleManifest)))

\* C8 as claimed: with separate contexts or a shared one, every call returns
\* what it returns when run alone, and the Analyzed Model stays as built.
C8_EveryCallAsAlone ==
    /\ analyzed_mdl = AnalyzedModelAsBuilt
    /\ \A c \in Calls :
           tpc[c] = "done" => call_result[c] = Some(AloneResult(c))

\* No other call registers a function on the context of call c.
NoForeignRegistration(c) ==
    \/ call_via[c] = "transform_sql"
    \/ \A d \in Calls \ {c} :
           call_via[d] = "transform_sql" \/ call_functions[d] = <<>>

\* C8: the Analyzed Model stays as built in every interleaving, and a call
\* returns what it returns when run alone whenever no other call registers
\* functions on its context (it has a context of its own, or the calls it
\* shares one with have empty remote_functions lists).
C8_IsolatedCallAsAlone ==
    /\ analyzed_mdl = AnalyzedModelAsBuilt
    /\ \A c \in Calls :
           (tpc[c] = "done" /\ NoForeignRegistration(c)) =>
               call_result[c] = Some(AloneResult(c))

\* Two transform_sql calls, the first registering f and the second calling
\* it, have both returned; the second did not see f.
C8_Witness ==
    /\ call_via = [c \in Calls |-> "transform_sql"]
    /\ call_functions[1] = <<RemoteFunction("f", "Scalar", "int")>>
    /\ call_functions[2] = <<>>
    /\ call_sql[2] = Query(Some("f"), FALSE)
    /\ tpc = [c \in Calls |-> "done"]
    /\ 1 \notin started_after[2]
    /\ call_result[2] = Some(Err("Invalid function"))

----------------------------------------------------------------------------
(* C9 *)

\* A function of the name is registered among those of its kind.
IsRegistered(registry, rf) == rf.name \in DOMAIN registry[rf.function_type]

----------------------------------------------------------------------------
(* C10 *)

\* The query calls the function the way its kind is called.
Calls_(q, rf) ==
    /\ q.function = Some(rf.name)
    /\ rf.function_type = "Window" => q.over

\* C10: the functions of a call that has returned stay registered in its
\* context; a call made later on the same context resolves a call to any
\* of them, with an empty list of its own to one of exactly them; and the
\* context transform_sql creates starts without any function.
C10_RegistrationLasts ==
    /\ \A c \in Calls :
           tpc[c] = "done" =>
               \A i \in DOMAIN call_functions[c] :
                   IsRegistered(ctx_functions[ctx_of(c)], call_functions[c][i])
    /\ \A c, d \in Calls :
           ( /\ c \in started_after[d]
             /\ call_via[c] = "transform_sql_with_ctx"
             /\ call_via[d] = "transform_sql_with_ctx"
             /\ tpc[d] = "done"
             /\ \E i \in DOMAIN call_functions[c] :
                    Calls_(call_sql[d], call_functions[c][i]) ) =>
               /\ call_result[d].v.ok
               /\ call_functions[d] = <<>> =>
                      call_result[d].v.v.function \in
                          {ByPassFunction(call_functions[c][i].name,
                                          map_data_type(call_functions[c][i].return_type)) :
                               i \in DOMAIN call_functions[c]}
    /\ \A c \in Calls :
           ( /\ call_via[c] = "transform_sql"
             /\ tpc[c] = "register"
             /\ reg_index[c] = 1 ) =>
               ctx_functions[ctx_of(c)] = SessionContext_new

\* Call 2, made on the caller's context after call 1 returned and with no
\* function of its own, has resolved the window function call 1 registered.
C10_Witness ==
    /\ call_via = [c \in Calls |-> "transform_sql_with_ctx"]
    /\ call_functions[1] = <<RemoteFunction("h", "Window", "int")>>
    /\ call_functions[2] = <<>>
    /\ call_sql[2] = Query(Some("h"), TRUE)
    /\ started_after[2] = {1}
    /\ tpc[2] = "done"
    /\ call_result[2] = Some(Resolved("Window", ByPassFunction("h", "Int32")))

----------------------------------------------------------------------------
\* The joinType spellings the interface promises, value by value.
ClaimedJoinType(s) ==
    CASE s \in {"ONE_TO_ONE", "one_to_one"} -> Some("OneToOne")
      [] s \in {"ONE_TO_MANY", "one_to_many"} -> Some("OneToMany")
      [] s \in {"MANY_TO_ONE", "many_to_one"} -> Some("ManyToOne")
      [] s \in {"MANY_TO_MANY", "many_to_many"} -> Some("ManyToMany")
      [] OTHER -> None

JoinTypeRead_done == jpc \in {"value", "de_error", "asked", "shown", "parsed"}

\* C16: deserializing joinType yields OneToOne, OneToMany, ManyToOne or
\* ManyToMany for the SCREAMING_SNAKE_CASE and for the lower snake_case
\* spelling of that value and is an error for every other literal (and for
\* a value that is no string); the text Display writes parses back to the
\* value displayed.
C16_JoinTypeSpellings ==
    /\ JoinTypeRead_done =>
           IF join_doc.t = "str" /\ ClaimedJoinType(join_doc.s).some
           THEN jpc # "de_error" /\ join_type = ClaimedJoinType(join_doc.s)
           ELSE jpc = "de_error" /\ join_type = None
    /\ jpc \in {"shown", "parsed"} =>
           join_text = Some(JoinType_fmt(join_type.v))
    /\ jpc = "parsed" => join_parsed = Some(Ok(join_type.v))

\* A SCREAMING_SNAKE_CASE literal was read, displayed in lower snake_case
\* and read again.
C16_Witness ==
    /\ jpc = "parsed"
    /\ join_doc = JStr("MANY_TO_ONE")
    /\ join_type = Some("ManyToOne")
    /\ join_text = Some("many_to_one")
    /\ join_parsed = Some(Ok("ManyToOne"))

----------------------------------------------------------------------------
\* C17: is_to_one is true exactly for OneToOne and ManyToOne, false for
\* OneToMany and ManyToMany.
C17_ToOneExactlyOneToOneAndManyToOne ==
    jpc \in {"asked", "shown", "parsed"} /\ to_one.some =>
        /\ join_type \in {Some("OneToOne"), Some("ManyToOne")} => to_one = Some(TRUE)
        /\ join_type \in {Some("OneToMany"), Some("ManyToMany")} => to_one = Some(FALSE)
        /\ join_type.some /\ join_type.v \in JoinTypes

\* is_to_one answered true for ManyToOne (read from its legacy spelling).
C17_Witness ==
    /\ jpc = "asked"
    /\ join_doc = JStr("many_to_one")
    /\ join_type = Some("ManyToOne")
    /\ to_one = Some(TRUE)

----------------------------------------------------------------------------
\* The table_reference of the one model of the Manifest handed to the
\* serializer.
SavedTableReference == original.v.models[1].table_reference

\* The dot-separated segments of a reference, counted on its text: the
\* empty ones included, and the non-empty ones.
SegmentCount(s) == Cardinality({i \in 1..Len(s) : s[i] = "."}) + 1

NonEmptySegmentCount(s) ==
    Cardinality({i \in 1..Len(s) : s[i] # "." /\ (i = 1 \/ s[i - 1] = ".")})

\* C15 as stated: a table_reference of more than 3 dot-separated segments
\* fails to serialize with 'Invalid table reference' and nothing is emitted;
\* one of 1 to 3 segments never fails.
C15_MoreThanThreeSegmentsFail ==
    original.some /\ SavedTableReference.some =>
        /\ SegmentCount(SavedTableReference.v) > 3 =>
               spc = "ser_error" /\ doc = JAbsent
        /\ SegmentCount(SavedTableReference.v) \in 1..3 =>
               spc \in {"saved", "reloaded"}

\* C15 amended: the segments that count are the non-empty ones.  More than
\* 3 non-empty segments fail with 'Invalid table reference' and nothing is
\* emitted; at most 3 non-empty segments never fail, whatever the number of
\* empty segments between, before or after them.
C15_MoreThanThreeNonEmptySegmentsFail ==
    original.some /\ SavedTableReference.some =>
        /\ NonEmptySegmentCount(SavedTableReference.v) > 3 =>
               /\ spc = "ser_error"
               /\ doc = JAbsent
               /\ Manifest_serialize(original.v) = Err("Invalid table reference")
        /\ NonEmptySegmentCount(SavedTableReference.v) <= 3 =>
               spc \in {"saved", "reloaded"}

\* The serializer refused a reference of four segments.
C15_Witness ==
    /\ spc = "ser_error"
    /\ original.some
    /\ SavedTableReference = Some(<<"a", ".", "b", ".", "a", ".", "b">>)
    /\ doc = JAbsent

----------------------------------------------------------------------------
\* The 4-part names of the manifest's columns: every model column, and
\* every metric dimension and measure, under the manifest's catalog and
\* schema.
ModelColumnNames(m) ==
    UNION {{[catalog |-> m.catalog, schema |-> m.schema,
             table |-> m.models[i].name, name |-> m.models[i].columns[j].name] :
               j \in DOMAIN m.models[i].columns} : i \in DOMAIN m.models}

MetricColumnNames(m) ==
    UNION {{[catalog |-> m.catalog, schema |-> m.schema,
             table |-> m.metrics[i].name, name |-> c.name] :
               c \in {m.metrics[i].dimension[j] : j \in DOMAIN m.metrics[i].dimension}
                      \cup {m.metrics[i].measure[j] : j \in DOMAIN m.metrics[i].measure}} :
           i \in DOMAIN m.metrics}

\* C14: get_column_reference returns Some exactly for the 4-part names
\* that equal, case-sensitively, (catalog, schema, dataset name, column
\* name) of a model column, metric dimension or metric measure; the
\* reference returned carries the dataset name and the column name of the
\* key; every other name gets None.
C14_ExactMatchLookup ==
    mpc = "looked_up" =>
        IF lookup.v.column \in ModelColumnNames(mdl_manifest.v)
                                  \cup MetricColumnNames(mdl_manifest.v)
        THEN /\ lookup.v.reference.some
             /\ lookup.v.reference.v.dataset.name = lookup.v.column.table
             /\ lookup.v.reference.v.column.name = lookup.v.column.name
        ELSE lookup.v.reference = None

\* A lookup found a column of a metric in a manifest that has a model too.
C14_Witness ==
    /\ mpc = "looked_up"
    /\ lookup.v.column = from_qualified_name_str("wren", "test", "n", "d")
    /\ lookup.v.reference.some
    /\ lookup.v.reference.v.dataset.kind = "Metric"
    /\ mdl_manifest.v.models # <<>>

----------------------------------------------------------------------------
\* The table a name was first registered with.
FirstRegistered(name) ==
    registrations[CHOOSE i \in DOMAIN registrations :
                      /\ registrations[i][1] = name
                      /\ \A j \in 1..(i - 1) : registrations[j][1] # name][2]

\* C18: after any sequence of register_table calls the manifest,
\* qualified_references and catalog_schema_prefix of the built WrenMDL are
\* as WrenMDL::new built them, every name registered so far is in the
\* registry, and it maps to the data source it was first registered with.
C18_RegistrationAppendOnly ==
    mpc = "built" =>
        /\ wren_mdl.v.manifest = mdl_manifest.v
        /\ wren_mdl.v.qualified_references =
               WrenMDL_new(mdl_manifest.v).qualified_references
        /\ wren_mdl.v.catalog_schema_prefix = catalog_schema_prefix(mdl_manifest.v)
        /\ \A i \in DOMAIN registrations :
               get_table(wren_mdl.v, registrations[i][1])
                   = Some(FirstRegistered(registrations[i][1]))

----------------------------------------------------------------------------
(* C19 *)

\* The key a model's data source is registered and looked up under.
QuotedTableReference(model) ==
    to_quoted_string(TableReference_from(Model_table_reference(model)))

\* C19: after analysis every model's quoted table reference is registered
\* with a data source whose schema is the fields inferred from that
\* model's own columns, in column order.
C19_EveryModelKeepsItsOwnSchema ==
    (stage = "analyzed" /\ analysis.some /\ analysis.v.ok) =>
        \A i \in DOMAIN src_manifest.v.models :
            LET found == get_table(analysis.v.v.wren_mdl,
                                   QuotedTableReference(src_manifest.v.models[i]))
            IN  /\ found.some
                /\ found.v.schema = inferred_fields(src_manifest.v.models[i].columns)

----------------------------------------------------------------------------
(* C11 *)

\* The stages of transform_sql_with_ctx in the order the claim gives them.
StageOrder == <<"ctx", "plan", "optimize", "unparse", "strip">>

\* The result of the stage that ran last.
LastResult == ran[Len(ran)].result

\* C11: the stages run in the order context, plan, optimize, unparse,
\* strip, each at most once; no stage runs after one that failed; the call
\* returns when a stage fails, with that stage's error, or when the last
\* stage has run, and it returns Ok only when all five stages have
\* succeeded.
C11_StagesInOrderFirstErrorReturned ==
    /\ Len(ran) <= Len(StageOrder)
    /\ \A i \in DOMAIN ran : ran[i].stage = StageOrder[i]
    /\ \A i \in 1..(Len(ran) - 1) : ran[i].result.ok
    /\ outcome.some <=> stage = "done"
    /\ (ran # <<>> /\ ~LastResult.ok) => (stage = "done" /\ outcome = Some(LastResult))
    /\ outcome.some =>
           /\ ran # <<>>
           /\ outcome.v = LastResult
           /\ outcome.v.ok => Len(ran) = Len(StageOrder)

\* A call has returned the error of the optimization, its third stage.
C11_Witness ==
    /\ stage = "done"
    /\ Len(ran) = 3
    /\ ran[3].stage = "optimize"
    /\ ~outcome.v.ok
    /\ outcome.v = ran[3].result

----------------------------------------------------------------------------
(* C12 *)

\* The names of the physical columns inference takes from the columns of a
\* model: the name of a column without expression and the last identifier
\* of an identifier chain, of columns that are not calculated.
SuppliedNames(model) ==
    {model.columns[k].name : k \in {j \in DOMAIN model.columns :
        ~model.columns[j].is_calculated /\ ~model.columns[j].expression.some}}
    \cup
    {ChainLast[model.columns[k].expression.v] : k \in {j \in DOMAIN model.columns :
        /\ ~model.columns[j].is_calculated
        /\ model.columns[j].expression.some
        /\ model.columns[j].expression.v \in DOMAIN ChainLast}}

\* The physical columns the selected column's expression refers to that
\* inference cannot supply; empty unless the statement selects, from the
\* model, a column that is not calculated and whose expression is not an
\* identifier chain.
MissingOfSelected ==
    IF /\ statement.some /\ statement.v.kind # "garbage" /\ statement.v.relation = "m"
       /\ \E j \in DOMAIN src_manifest.v.models[1].columns :
              src_manifest.v.models[1].columns[j].name = statement.v.column
    THEN LET col == get_column(src_manifest.v.models[1], statement.v.column)
         IN  IF /\ ~col.is_calculated
                /\ col.expression.some
                /\ col.expression.v \notin DOMAIN ChainLast
             THEN referenced_columns(col.expression.v) \ SuppliedNames(src_manifest.v.models[1])
             ELSE {}
    ELSE {}

\* Every view of the manifest has a statement that can be planned.
ViewsPlannable ==
    \A i \in DOMAIN src_manifest.v.views : src_manifest.v.views[i].statement # "selec"

\* C12: when the selected column's expression refers to a physical column
\* that inference cannot supply, the analysis of the manifest succeeds,
\* the transform never returns Ok, and (the manifest being sound otherwise)
\* it returns the schema error of the model analysis that names the
\* missing field.
C12_MissingSourceColumnFailsAtTransform ==
    MissingOfSelected # {} =>
        /\ analysis.some => analysis.v.ok
        /\ outcome.some =>
               /\ ~outcome.v.ok
               /\ ViewsPlannable =>
                      /\ outcome.v.e.kind =
                             "ModelAnalyzeRule caused by Schema error: No field named"
                      /\ outcome.v.e.detail \in MissingOfSelected

\* The column d with the expression a || a was selected from a model that
\* has no column a: analysis succeeded and the call returned the error.
C12_Witness ==
    /\ MissingOfSelected = {"a"}
    /\ analysis.some /\ analysis.v.ok
    /\ stage = "done"
    /\ ~outcome.v.ok
    /\ outcome.v.e.detail = "a"
    /\ Len(ran) = 3

----------------------------------------------------------------------------
(* C13 *)

\* The text t occurs in the text s.
Contains(s, t) ==
    \E i \in 1..(Len(s) - Len(t) + 1) : SubSeq(s, i, i + Len(t) - 1) = t

\* The qualifier of the manifest's virtual relations, as the unparser
\* writes it.
VirtualQualifier ==
    ident(src_manifest.v.catalog) \o <<".">> \o ident(src_manifest.v.schema) \o <<".">>

----------------------------------------------------------------------------
(* C20 *)

\* The SQL the unparser produced, once it has.
Unparsed == ran[4].result.v

\* The FROM clause over the physical table and the string literal, as the
\* unparser writes them.
PhysicalFrom ==
    <<" FROM ">> \o table_path(src_manifest.v.models[1]) \o <<") AS ">>

LiteralWritten == literal_text(statement.v.literal)

\* C20: the path of the physical table and the string literal stand in the
\* returned SQL as the unparser produced them.
C20_PathAndLiteralUntouched ==
    (stage = "done" /\ outcome.v.ok) =>
        /\ Contains(Unparsed, PhysicalFrom) /\ Contains(Unparsed, LiteralWritten)
        /\ Contains(outcome.v.v, PhysicalFrom)
        /\ Contains(outcome.v.v, LiteralWritten)

====
